---- MODULE Spec2Model ----
(***************************************************************************)
(* A model of the neo-blockchain virtual machine                           *)
(* (packages/neo-blockchain-vm): the opcode table of opcodes.js, the       *)
(* system calls of syscalls.js and the engine loop that runs them.         *)
(*                                                                         *)
(* A script is a sequence of bytes.  The execution context is the record   *)
(* of constants.js (ExecutionContext); stack[1] is the top of the stack    *)
(* (the source's stack[0]).  Arrays and structs live in a heap so that     *)
(* aliasing is observable.  The JavaScript call stack of pending invoke    *)
(* calls (CALL, APPCALL, TAILCALL awaiting the nested run) is the          *)
(* variable frames.                                                        *)
(*                                                                         *)
(* Three components of the client and network packages run beside the      *)
(* machine, each under a specification of its own (IteratorSpec, PeerSpec, *)
(* RequestSpec): AsyncBlockIterator, Peer.receiveMessage and the JSON-RPC  *)
(* request function.  A behaviour runs one component; the variables of the *)
(* others keep the value Unused.                                           *)
(***************************************************************************)
EXTENDS Integers, Sequences, FiniteSets, TLC

VARIABLES
  context,     \* the ExecutionContext of the frame that is executing
  frames,      \* pending invoke calls of CALL / APPCALL / TAILCALL, innermost last
  heap,        \* the arrays and structs: heap[r] is the element list of reference r
  blockchain,  \* the ledger facade: contracts, storage items, emitted actions
  state,       \* "NONE" while running, then "HALT" or "FAULT"
  error,       \* the error that ended the run ("none" unless state = "FAULT")
  lastOp,      \* name of the opcode or syscall executed by the last step
  run,         \* the input of executeScript this behaviour was started with
  calls,       \* history: the system calls invoked so far, arguments and results
  pending,     \* the ledger operations an invoke has started and awaits
  iterator,    \* the fields of an AsyncBlockIterator
  fetch,       \* the _asyncFetch call in progress and what it awaits
  promises,    \* history: the result of each next() call, in call order
  blockCount,  \* the number of blocks of the node the client talks to
  peer,        \* the _buffer stream of a Peer: queue, paused flag, listeners
  receives,    \* the closures of the receiveMessage calls, in call order
  arrived,     \* the number of messages the transform stream has emitted
  request,     \* the locals of one call of the JSON-RPC request function
  attempts     \* history: the response of each fetch attempt of the call

vmVars ==
  <<context, frames, heap, blockchain, state, error, lastOp, run, calls,
    pending>>
iteratorVars == <<iterator, fetch, promises, blockCount>>
peerVars == <<peer, receives, arrived>>
requestVars == <<request, attempts>>
clientVars == <<iteratorVars, peerVars, requestVars>>
vars == <<vmVars, clientVars>>

\* the value of the variables of a component the behaviour does not run
Unused == <<>>
NoMachine ==
  /\ context = Unused /\ frames = Unused /\ heap = Unused
  /\ blockchain = Unused /\ state = Unused /\ error = Unused
  /\ lastOp = Unused /\ run = Unused /\ calls = Unused /\ pending = Unused
NoIterator ==
  /\ iterator = Unused /\ fetch = Unused /\ promises = Unused
  /\ blockCount = Unused
NoPeer == peer = Unused /\ receives = Unused /\ arrived = Unused
NoRequest == request = Unused /\ attempts = Unused

----------------------------------------------------------------------------
(* Limits of constants.js *)

MAX_STACK_SIZE == 2048
MAX_INVOCATION_STACK_SIZE == 1024
MAX_ARRAY_SIZE == 1024
MAX_ITEM_SIZE == 1048576

UINT160_BUFFER_BYTES == 20
UINT256_BUFFER_BYTES == 32
ECPOINT_BUFFER_BYTES == 33
MAX_VOTES == 1024

(* Bounds of the model *)

\* a run is cut when the combined stack grows this far beyond MAX_STACK_SIZE
StackSlack == 2
\* largest number of packed items in the PACK / UNPACK scripts
MaxPack == 3
\* largest number of public keys given to CHECKMULTISIG
MaxKeys == 3
\* largest initial gas budget
MaxGas == 2
\* a run that starts as a nested run starts this far below a limit
Margin == 2

----------------------------------------------------------------------------
(* Opcode bytes, OPCODE_PAIRS of opcodes.js *)

PUSH0 == 0
PUSHDATA1 == 76
PUSHDATA2 == 77
PUSHDATA4 == 78
PUSHM1 == 79
PUSH1 == 81
PUSH16 == 96
NOP == 97
JMP == 98
JMPIF == 99
JMPIFNOT == 100
CALL == 101
RET == 102
APPCALL == 103
SYSCALL == 104
TAILCALL == 105
DUPFROMALTSTACK == 106
TOALTSTACK == 107
FROMALTSTACK == 108
XDROP == 109
XSWAP == 114
XTUCK == 115
DEPTH == 116
DROP == 117
DUP == 118
NIP == 119
OVER == 120
\* PICK (the name is a reserved word of TLA+)
PICK_ == 121
ROLL == 122
ROT == 123
SWAP == 124
TUCK == 125
CAT == 126
RIGHT == 129
CHECKSIG == 172
CHECKMULTISIG == 174
ARRAYSIZE == 192
PACK == 193
UNPACK == 194
PICKITEM == 195
SETITEM == 196
NEWARRAY == 197
NEWSTRUCT == 198
THROW == 240
THROWIFNOT == 241

----------------------------------------------------------------------------
(* Stack items (stackItem/*.js) *)

IntegerStackItem(n) == [t |-> "Integer", v |-> n]
BooleanStackItem(b) == [t |-> "Boolean", v |-> b]
BufferStackItem(b) == [t |-> "Buffer", v |-> b]
ArrayStackItem(r) == [t |-> "Array", v |-> r]
StructStackItem(r) == [t |-> "Struct", v |-> r]
UInt160StackItem(h) == [t |-> "UInt160", v |-> h]
ContractStackItem(h) == [t |-> "Contract", v |-> h]
StorageContextStackItem(h) == [t |-> "StorageContext", v |-> h]
AccountStackItem(a) == [t |-> "Account", v |-> a]
ValidatorStackItem(v) == [t |-> "Validator", v |-> v]
AssetStackItem(a) == [t |-> "Asset", v |-> a]

isArray(item) == item.t \in {"Array", "Struct"}

RECURSIVE Pow256(_)
Pow256(n) == IF n = 0 THEN 1 ELSE 256 * Pow256(n - 1)

RECURSIVE UnsignedLE(_)
UnsignedLE(b) == IF b = <<>> THEN 0 ELSE b[1] + 256 * UnsignedLE(Tail(b))

\* Buffer -> Integer: little-endian two's complement, empty buffer = 0
fromSignedBuffer(b) ==
  IF b = <<>> THEN 0
  ELSE IF b[Len(b)] >= 128 THEN UnsignedLE(b) - Pow256(Len(b))
  ELSE UnsignedLE(b)

\* the coercions; canX says whether asX succeeds (otherwise InvalidTypeError)
canBigInteger(item) == item.t \in {"Integer", "Boolean", "Buffer"}
asBigInteger(item) ==
  CASE item.t = "Integer" -> item.v
    [] item.t = "Boolean" -> IF item.v THEN 1 ELSE 0
    [] item.t = "Buffer" -> fromSignedBuffer(item.v)
    [] OTHER -> 0

RECURSIVE BytesLE(_, _)
BytesLE(u, k) == IF k = 0 THEN <<>> ELSE <<u % 256>> \o BytesLE(u \div 256, k - 1)

RECURSIVE SignedWidth(_, _)
\* the least k >= from with -2^(8k-1) <= n < 2^(8k-1)
SignedWidth(n, from) ==
  IF 2 * n < Pow256(from) /\ 2 * n >= -Pow256(from) THEN from
  ELSE SignedWidth(n, from + 1)

\* Integer -> Buffer: little-endian two's complement, 0 = empty buffer
toSignedBuffer(n) ==
  IF n = 0 THEN <<>>
  ELSE LET k == SignedWidth(n, 1)
       IN  BytesLE(IF n < 0 THEN n + Pow256(k) ELSE n, k)

canBuffer(item) == item.t \in {"Integer", "Boolean", "Buffer", "UInt160"}
asBuffer(item) ==
  CASE item.t = "Integer" -> toSignedBuffer(item.v)
    [] item.t = "Boolean" -> IF item.v THEN <<1>> ELSE <<>>
    [] OTHER -> item.v

canBoolean(item) == item.t \in {"Integer", "Boolean", "Buffer"}
asBoolean(item) ==
  CASE item.t = "Boolean" -> item.v
    [] item.t = "Integer" -> item.v # 0
    [] item.t = "Buffer" -> \E i \in 1..Len(item.v) : item.v[i] # 0
    [] OTHER -> TRUE

\* vmUtils.toNumber: BN -> number
toNumber(n) == n

----------------------------------------------------------------------------
(* Byte-level helpers *)

Reverse(s) == [i \in 1..Len(s) |-> s[Len(s) + 1 - i]]

\* code.slice(from, to) with 0-based offsets, truncated at the end like Buffer.slice
slice(code, from, to) ==
  SubSeq(code, from + 1, IF to > Len(code) THEN Len(code) ELSE to)

\* code.readInt16LE(pc); the caller checks pc + 2 <= code.length (RangeError)
readInt16LE(code, pc) ==
  LET u == code[pc + 1] + 256 * code[pc + 2]
  IN  IF u >= 32768 THEN u - 65536 ELSE u

\* buffer.slice(start) with one argument: a negative start counts from the end,
\* and -0 is 0
sliceFrom(b, start) ==
  LET from == IF start < 0
              THEN (IF Len(b) + start < 0 THEN 0 ELSE Len(b) + start)
              ELSE (IF start > Len(b) THEN Len(b) ELSE start)
  IN  SubSeq(b, from + 1, Len(b))

\* buffer.slice(start, end): a negative offset counts from the end, offsets are
\* clamped to the buffer, and the result is empty when end <= start
sliceOffset(b, k) ==
  IF k < 0 THEN (IF Len(b) + k < 0 THEN 0 ELSE Len(b) + k)
  ELSE (IF k > Len(b) THEN Len(b) ELSE k)
sliceBetween(b, start, end) ==
  SubSeq(b, sliceOffset(b, start) + 1, sliceOffset(b, end))

\* code.readUInt8(pc), code.readUInt16LE(pc), code.readInt32LE(pc); the caller
\* checks that the bytes are there (RangeError)
readUInt8(code, pc) == code[pc + 1]
readUInt16LE(code, pc) == code[pc + 1] + 256 * code[pc + 2]
readInt32LE(code, pc) ==
  code[pc + 1] + 256 * code[pc + 2] + 65536 * code[pc + 3] +
  16777216 * (IF code[pc + 4] >= 128 THEN code[pc + 4] - 256 ELSE code[pc + 4])

\* a UInt160 whose first byte is k
UInt160Of(k) == <<k>> \o [i \in 1..(UINT160_BUFFER_BYTES - 1) |-> 0]

\* common.bufferToUInt160 succeeds on buffers of 20 bytes only
isUInt160(b) == Len(b) = UINT160_BUFFER_BYTES

\* a UInt256 whose first byte is k; common.bufferToUInt256 succeeds on buffers
\* of 32 bytes only
UInt256Of(k) == <<k>> \o [i \in 1..(UINT256_BUFFER_BYTES - 1) |-> 0]
isUInt256(b) == Len(b) = UINT256_BUFFER_BYTES

\* common.bufferToECPoint succeeds on 33 bytes and on the point at infinity
isECPoint(b) == Len(b) = ECPOINT_BUFFER_BYTES \/ b = <<0>>

\* the public key numbered k, and crypto.getVerificationScriptHash of a key
ECPointOf(k) == <<2>> \o [i \in 1..(ECPOINT_BUFFER_BYTES - 2) |-> 0] \o <<k>>
getVerificationScriptHash(publicKey) ==
  <<publicKey[ECPOINT_BUFFER_BYTES], 255>> \o
  [i \in 1..(UINT160_BUFFER_BYTES - 2) |-> 0]

\* utils.toASCII on the names the model's scripts use
ASCII ==
  "Neo.Runtime.Notify" :>
    <<78, 101, 111, 46, 82, 117, 110, 116, 105, 109, 101, 46, 78, 111, 116,
      105, 102, 121>> @@
  "Neo.Runtime.Log" :>
    <<78, 101, 111, 46, 82, 117, 110, 116, 105, 109, 101, 46, 76, 111, 103>> @@
  "Neo.Blockchain.GetContract" :>
    <<78, 101, 111, 46, 66, 108, 111, 99, 107, 99, 104, 97, 105, 110, 46, 71,
      101, 116, 67, 111, 110, 116, 114, 97, 99, 116>> @@
  "Neo.Storage.GetContext" :>
    <<78, 101, 111, 46, 83, 116, 111, 114, 97, 103, 101, 46, 71, 101, 116,
      67, 111, 110, 116, 101, 120, 116>> @@
  "Neo.Contract.Create" :>
    <<78, 101, 111, 46, 67, 111, 110, 116, 114, 97, 99, 116, 46, 67, 114,
      101, 97, 116, 101>> @@
  "Neo.Contract.GetStorageContext" :>
    <<78, 101, 111, 46, 67, 111, 110, 116, 114, 97, 99, 116, 46, 71, 101,
      116, 83, 116, 111, 114, 97, 103, 101, 67, 111, 110, 116, 101, 120,
      116>> @@
  "AntShares.Runtime.Log" :>
    <<65, 110, 116, 83, 104, 97, 114, 101, 115, 46, 82, 117, 110, 116, 105,
      109, 101, 46, 76, 111, 103>> @@
  "System.ExecutionEngine.GetExecutingScriptHash" :>
    <<83, 121, 115, 116, 101, 109, 46, 69, 120, 101, 99, 117, 116, 105, 111,
      110, 69, 110, 103, 105, 110, 101, 46, 71, 101, 116, 69, 120, 101, 99,
      117, 116, 105, 110, 103, 83, 99, 114, 105, 112, 116, 72, 97, 115, 104>> @@
  "AntShares.Runtime.Notify" :>
    <<65, 110, 116, 83, 104, 97, 114, 101, 115, 46, 82, 117, 110, 116, 105,
      109, 101, 46, 78, 111, 116, 105, 102, 121>> @@
  "AntShares.Runtime.GetTrigger" :>
    <<65, 110, 116, 83, 104, 97, 114, 101, 115, 46, 82, 117, 110, 116, 105,
      109, 101, 46, 71, 101, 116, 84, 114, 105, 103, 103, 101, 114>> @@
  "AntShares.Blockchain.GetContract" :>
    <<65, 110, 116, 83, 104, 97, 114, 101, 115, 46, 66, 108, 111, 99, 107,
      99, 104, 97, 105, 110, 46, 71, 101, 116, 67, 111, 110, 116, 114, 97,
      99, 116>> @@
  "AntShares.Contract.Create" :>
    <<65, 110, 116, 83, 104, 97, 114, 101, 115, 46, 67, 111, 110, 116, 114,
      97, 99, 116, 46, 67, 114, 101, 97, 116, 101>> @@
  "Neo.Storage.Get" :>
    <<78, 101, 111, 46, 83, 116, 111, 114, 97, 103, 101, 46, 71, 101, 116>> @@
  "Neo.Storage.Put" :>
    <<78, 101, 111, 46, 83, 116, 111, 114, 97, 103, 101, 46, 80, 117, 116>> @@
  "Neo.Storage.Delete" :>
    <<78, 101, 111, 46, 83, 116, 111, 114, 97, 103, 101, 46, 68, 101, 108,
      101, 116, 101>> @@
  "Neo.Contract.Destroy" :>
    <<78, 101, 111, 46, 67, 111, 110, 116, 114, 97, 99, 116, 46, 68, 101,
      115, 116, 114, 111, 121>> @@
  "System.ExecutionEngine.GetCallingScriptHash" :>
    <<83, 121, 115, 116, 101, 109, 46, 69, 120, 101, 99, 117, 116, 105, 111,
      110, 69, 110, 103, 105, 110, 101, 46, 71, 101, 116, 67, 97, 108, 108,
      105, 110, 103, 83, 99, 114, 105, 112, 116, 72, 97, 115, 104>> @@
  "System.ExecutionEngine.GetEntryScriptHash" :>
    <<83, 121, 115, 116, 101, 109, 46, 69, 120, 101, 99, 117, 116, 105, 111,
      110, 69, 110, 103, 105, 110, 101, 46, 71, 101, 116, 69, 110, 116, 114,
      121, 83, 99, 114, 105, 112, 116, 72, 97, 115, 104>> @@
  "Neo.Contract.Migrate" :>
    <<78, 101, 111, 46, 67, 111, 110, 116, 114, 97, 99, 116, 46, 77, 105,
      103, 114, 97, 116, 101>> @@
  "Neo.Account.SetVotes" :>
    <<78, 101, 111, 46, 65, 99, 99, 111, 117, 110, 116, 46, 83, 101, 116, 86,
      111, 116, 101, 115>> @@
  "Neo.Validator.Register" :>
    <<78, 101, 111, 46, 86, 97, 108, 105, 100, 97, 116, 111, 114, 46, 82,
      101, 103, 105, 115, 116, 101, 114>> @@
  "Neo.Asset.Create" :>
    <<78, 101, 111, 46, 65, 115, 115, 101, 116, 46, 67, 114, 101, 97, 116,
      101>> @@
  "Neo.Blockchain.GetAccount" :>
    <<78, 101, 111, 46, 66, 108, 111, 99, 107, 99, 104, 97, 105, 110, 46, 71,
      101, 116, 65, 99, 99, 111, 117, 110, 116>> @@
  "Neo.Account.GetBalance" :>
    <<78, 101, 111, 46, 65, 99, 99, 111, 117, 110, 116, 46, 71, 101, 116, 66,
      97, 108, 97, 110, 99, 101>>

toASCII(bytes) ==
  IF \E n \in DOMAIN ASCII : ASCII[n] = bytes
  THEN CHOOSE n \in DOMAIN ASCII : ASCII[n] = bytes
  ELSE "?"

----------------------------------------------------------------------------
(* Descriptors: createOp and createSysCall *)

ZERO == 0

Opt(d, f) == IF f \in DOMAIN d THEN d[f] ELSE 0

\* variant: a descriptor that passes no fee costs one unit
UnitFee == ZERO + 1

\* the fee of a descriptor that passes none: `fee || utils.ZERO`
DefaultFee == ZERO

createOp(d, ctx) ==
  [err |-> "none",
   name |-> d.name,
   arg |-> Opt(d, "arg"),
   in |-> Opt(d, "in"),
   inAlt |-> Opt(d, "inAlt"),
   out |-> Opt(d, "out"),
   outAlt |-> Opt(d, "outAlt"),
   modify |-> Opt(d, "modify"),
   modifyAlt |-> Opt(d, "modifyAlt"),
   invocation |-> Opt(d, "invocation"),
   array |-> Opt(d, "array"),
   item |-> Opt(d, "item"),
   fee |-> IF "fee" \in DOMAIN d THEN d.fee ELSE DefaultFee,
   context |-> ctx]

createSysCall(d, ctx) == createOp(d, ctx)

Throw(e) == [err |-> e]

pushNumber(name, value, ctx) ==
  createOp([name |-> name, arg |-> value, out |-> 1], ctx)

pushData(name, numBytes, ctx) ==
  createOp([name |-> name, arg |-> numBytes, out |-> 1], ctx)

jump(name, ctx) ==
  createOp([name |-> name, in |-> IF name = "JMP" THEN 0 ELSE 1], ctx)

\* variant: a call descriptor that declares no invocation
callUncounted(name, tailCall, ctx) == createOp([name |-> name], ctx)

call(name, tailCall, ctx) ==
  createOp([name |-> name, invocation |-> IF tailCall THEN 0 ELSE 1], ctx)

----------------------------------------------------------------------------
(* The system-call table (SYSCALLS, SYSCALL_ALIASES, lookupSysCall) *)

SYSCALLS ==
  "Neo.Runtime.GetTrigger" :>
    [name |-> "Neo.Runtime.GetTrigger", out |-> 1] @@
  "Neo.Runtime.CheckWitness" :>
    [name |-> "Neo.Runtime.CheckWitness", in |-> 1, out |-> 1] @@
  "Neo.Runtime.Notify" :>
    [name |-> "Neo.Runtime.Notify", in |-> 1] @@
  "Neo.Runtime.Log" :>
    [name |-> "Neo.Runtime.Log", in |-> 1] @@
  "Neo.Blockchain.GetHeight" :>
    [name |-> "Neo.Blockchain.GetHeight", out |-> 1] @@
  "Neo.Blockchain.GetHeader" :>
    [name |-> "Neo.Blockchain.GetHeader", in |-> 1, out |-> 1] @@
  "Neo.Blockchain.GetBlock" :>
    [name |-> "Neo.Blockchain.GetBlock", in |-> 1, out |-> 1] @@
  "Neo.Blockchain.GetTransaction" :>
    [name |-> "Neo.Blockchain.GetTransaction", in |-> 1, out |-> 1] @@
  "Neo.Blockchain.GetAccount" :>
    [name |-> "Neo.Blockchain.GetAccount", in |-> 1, out |-> 1] @@
  "Neo.Blockchain.GetValidators" :>
    [name |-> "Neo.Blockchain.GetValidators", out |-> 1] @@
  "Neo.Blockchain.GetAsset" :>
    [name |-> "Neo.Blockchain.GetAsset", in |-> 1, out |-> 1] @@
  "Neo.Blockchain.GetContract" :>
    [name |-> "Neo.Blockchain.GetContract", in |-> 1, out |-> 1] @@
  "Neo.Header.GetHash" :>
    [name |-> "Neo.Header.GetHash", in |-> 1, out |-> 1] @@
  "Neo.Header.GetVersion" :>
    [name |-> "Neo.Header.GetVersion", in |-> 1, out |-> 1] @@
  "Neo.Header.GetPrevHash" :>
    [name |-> "Neo.Header.GetPrevHash", in |-> 1, out |-> 1] @@
  "Neo.Header.GetMerkleRoot" :>
    [name |-> "Neo.Header.GetMerkleRoot", in |-> 1, out |-> 1] @@
  "Neo.Header.GetTimestamp" :>
    [name |-> "Neo.Header.GetTimestamp", in |-> 1, out |-> 1] @@
  "Neo.Header.GetConsensusData" :>
    [name |-> "Neo.Header.GetConsensusData", in |-> 1, out |-> 1] @@
  "Neo.Header.GetNextConsensus" :>
    [name |-> "Neo.Header.GetNextConsensus", in |-> 1, out |-> 1] @@
  "Neo.Block.GetTransactionCount" :>
    [name |-> "Neo.Block.GetTransactionCount", in |-> 1, out |-> 1] @@
  "Neo.Block.GetTransactions" :>
    [name |-> "Neo.Block.GetTransactions", in |-> 1, out |-> 1] @@
  "Neo.Block.GetTransaction" :>
    [name |-> "Neo.Block.GetTransaction", in |-> 2, out |-> 1] @@
  "Neo.Transaction.GetHash" :>
    [name |-> "Neo.Transaction.GetHash", in |-> 1, out |-> 1] @@
  "Neo.Transaction.GetType" :>
    [name |-> "Neo.Transaction.GetType", in |-> 1, out |-> 1] @@
  "Neo.Transaction.GetAttributes" :>
    [name |-> "Neo.Transaction.GetAttributes", in |-> 1, out |-> 1] @@
  "Neo.Transaction.GetInputs" :>
    [name |-> "Neo.Transaction.GetInputs", in |-> 1, out |-> 1] @@
  "Neo.Transaction.GetOutputs" :>
    [name |-> "Neo.Transaction.GetOutputs", in |-> 1, out |-> 1] @@
  "Neo.Transaction.GetReferences" :>
    [name |-> "Neo.Transaction.GetReferences", in |-> 1, out |-> 1] @@
  "Neo.Attribute.GetUsage" :>
    [name |-> "Neo.Attribute.GetUsage", in |-> 1, out |-> 1] @@
  "Neo.Attribute.GetData" :>
    [name |-> "Neo.Attribute.GetData", in |-> 1, out |-> 1] @@
  "Neo.Input.GetHash" :>
    [name |-> "Neo.Input.GetHash", in |-> 1, out |-> 1] @@
  "Neo.Input.GetIndex" :>
    [name |-> "Neo.Input.GetIndex", in |-> 1, out |-> 1] @@
  "Neo.Output.GetAssetId" :>
    [name |-> "Neo.Output.GetAssetId", in |-> 1, out |-> 1] @@
  "Neo.Output.GetValue" :>
    [name |-> "Neo.Output.GetValue", in |-> 1, out |-> 1] @@
  "Neo.Output.GetScriptHash" :>
    [name |-> "Neo.Output.GetScriptHash", in |-> 1, out |-> 1] @@
  "Neo.Account.GetScriptHash" :>
    [name |-> "Neo.Account.GetScriptHash", in |-> 1, out |-> 1] @@
  "Neo.Account.GetVotes" :>
    [name |-> "Neo.Account.GetVotes", in |-> 1, out |-> 1] @@
  "Neo.Account.GetBalance" :>
    [name |-> "Neo.Account.GetBalance", in |-> 1, out |-> 1] @@
  "Neo.Asset.GetAssetId" :>
    [name |-> "Neo.Asset.GetAssetId", in |-> 1, out |-> 1] @@
  "Neo.Asset.GetAssetType" :>
    [name |-> "Neo.Asset.GetAssetType", in |-> 1, out |-> 1] @@
  "Neo.Asset.GetAmount" :>
    [name |-> "Neo.Asset.GetAmount", in |-> 1, out |-> 1] @@
  "Neo.Asset.GetAvailable" :>
    [name |-> "Neo.Asset.GetAvailable", in |-> 1, out |-> 1] @@
  "Neo.Asset.GetPrecision" :>
    [name |-> "Neo.Asset.GetPrecision", in |-> 1, out |-> 1] @@
  "Neo.Asset.GetOwner" :>
    [name |-> "Neo.Asset.GetOwner", in |-> 1, out |-> 1] @@
  "Neo.Asset.GetAdmin" :>
    [name |-> "Neo.Asset.GetAdmin", in |-> 1, out |-> 1] @@
  "Neo.Asset.GetIssuer" :>
    [name |-> "Neo.Asset.GetIssuer", in |-> 1, out |-> 1] @@
  "Neo.Contract.GetScript" :>
    [name |-> "Neo.Contract.GetScript", in |-> 1, out |-> 1] @@
  "Neo.Storage.GetContext" :>
    [name |-> "Neo.Storage.GetContext", out |-> 1] @@
  "Neo.Storage.Get" :>
    [name |-> "Neo.Storage.Get", in |-> 2, out |-> 1] @@
  "Neo.Account.SetVotes" :>
    [name |-> "Neo.Account.SetVotes", in |-> 2] @@
  "Neo.Validator.Register" :>
    [name |-> "Neo.Validator.Register", in |-> 1, out |-> 1] @@
  "Neo.Asset.Create" :>
    [name |-> "Neo.Asset.Create", in |-> 7, out |-> 1] @@
  "Neo.Asset.Renew" :>
    [name |-> "Neo.Asset.Renew", in |-> 2, out |-> 1] @@
  "Neo.Contract.Create" :>
    [name |-> "Neo.Contract.Create", in |-> 9, out |-> 1] @@
  "Neo.Contract.Migrate" :>
    [name |-> "Neo.Contract.Migrate", in |-> 9, out |-> 1] @@
  "Neo.Contract.GetStorageContext" :>
    [name |-> "Neo.Contract.GetStorageContext", in |-> 1, out |-> 1] @@
  "Neo.Contract.Destroy" :>
    [name |-> "Neo.Contract.Destroy", in |-> 1] @@
  "Neo.Storage.Put" :>
    [name |-> "Neo.Storage.Put", in |-> 3] @@
  "Neo.Storage.Delete" :>
    [name |-> "Neo.Storage.Delete", in |-> 2] @@
  "System.ExecutionEngine.GetScriptContainer" :>
    [name |-> "System.ExecutionEngine.GetScriptContainer", out |-> 1] @@
  "System.ExecutionEngine.GetExecutingScriptHash" :>
    [name |-> "System.ExecutionEngine.GetExecutingScriptHash", out |-> 1] @@
  "System.ExecutionEngine.GetCallingScriptHash" :>
    [name |-> "System.ExecutionEngine.GetCallingScriptHash", out |-> 1] @@
  "System.ExecutionEngine.GetEntryScriptHash" :>
    [name |-> "System.ExecutionEngine.GetEntryScriptHash", out |-> 1]

SYSCALL_ALIASES ==
  "AntShares.Runtime.CheckWitness" :> "Neo.Runtime.CheckWitness" @@
  "AntShares.Runtime.Notify" :> "Neo.Runtime.Notify" @@
  "AntShares.Runtime.Log" :> "Neo.Runtime.Log" @@
  "AntShares.Blockchain.GetHeight" :> "Neo.Blockchain.GetHeight" @@
  "AntShares.Blockchain.GetHeader" :> "Neo.Blockchain.GetHeader" @@
  "AntShares.Blockchain.GetBlock" :> "Neo.Blockchain.GetBlock" @@
  "AntShares.Blockchain.GetTransaction" :> "Neo.Blockchain.GetTransaction" @@
  "AntShares.Blockchain.GetAccount" :> "Neo.Blockchain.GetAccount" @@
  "AntShares.Blockchain.GetValidators" :> "Neo.Blockchain.GetValidators" @@
  "AntShares.Blockchain.GetAsset" :> "Neo.Blockchain.GetAsset" @@
  "AntShares.Blockchain.GetContract" :> "Neo.Blockchain.GetContract" @@
  "AntShares.Header.GetHash" :> "Neo.Header.GetHash" @@
  "AntShares.Header.GetVersion" :> "Neo.Header.GetVersion" @@
  "AntShares.Header.GetPrevHash" :> "Neo.Header.GetPrevHash" @@
  "AntShares.Header.GetMerkleRoot" :> "Neo.Header.GetMerkleRoot" @@
  "AntShares.Header.GetTimestamp" :> "Neo.Header.GetTimestamp" @@
  "AntShares.Header.GetConsensusData" :> "Neo.Header.GetConsensusData" @@
  "AntShares.Header.GetNextConsensus" :> "Neo.Header.GetNextConsensus" @@
  "AntShares.Block.GetTransactionCount" :> "Neo.Block.GetTransactionCount" @@
  "AntShares.Block.GetTransactions" :> "Neo.Block.GetTransactions" @@
  "AntShares.Block.GetTransaction" :> "Neo.Block.GetTransaction" @@
  "AntShares.Transaction.GetHash" :> "Neo.Transaction.GetHash" @@
  "AntShares.Transaction.GetType" :> "Neo.Transaction.GetType" @@
  "AntShares.Transaction.GetAttributes" :> "Neo.Transaction.GetAttributes" @@
  "AntShares.Transaction.GetInputs" :> "Neo.Transaction.GetInputs" @@
  "AntShares.Transaction.GetOutputs" :> "Neo.Transaction.GetOutputs" @@
  "AntShares.Transaction.GetReferences" :> "Neo.Transaction.GetReferences" @@
  "AntShares.Attribute.GetUsage" :> "Neo.Attribute.GetUsage" @@
  "AntShares.Attribute.GetData" :> "Neo.Attribute.GetData" @@
  "AntShares.Input.GetHash" :> "Neo.Input.GetHash" @@
  "AntShares.Input.GetIndex" :> "Neo.Input.GetIndex" @@
  "AntShares.Output.GetAssetId" :> "Neo.Output.GetAssetId" @@
  "AntShares.Output.GetValue" :> "Neo.Output.GetValue" @@
  "AntShares.Output.GetScriptHash" :> "Neo.Output.GetScriptHash" @@
  "AntShares.Account.GetScriptHash" :> "Neo.Account.GetScriptHash" @@
  "AntShares.Account.GetVotes" :> "Neo.Account.GetVotes" @@
  "AntShares.Account.GetBalance" :> "Neo.Account.GetBalance" @@
  "AntShares.Asset.GetAssetId" :> "Neo.Asset.GetAssetId" @@
  "AntShares.Asset.GetAssetType" :> "Neo.Asset.GetAssetType" @@
  "AntShares.Asset.GetAmount" :> "Neo.Asset.GetAmount" @@
  "AntShares.Asset.GetAvailable" :> "Neo.Asset.GetAvailable" @@
  "AntShares.Asset.GetPrecision" :> "Neo.Asset.GetPrecision" @@
  "AntShares.Asset.GetOwner" :> "Neo.Asset.GetOwner" @@
  "AntShares.Asset.GetAdmin" :> "Neo.Asset.GetAdmin" @@
  "AntShares.Asset.GetIssuer" :> "Neo.Asset.GetIssuer" @@
  "AntShares.Contract.GetScript" :> "Neo.Contract.GetScript" @@
  "AntShares.Storage.GetContext" :> "Neo.Storage.GetContext" @@
  "AntShares.Storage.Get" :> "Neo.Storage.Get" @@
  "AntShares.Account.SetVotes" :> "Neo.Account.SetVotes" @@
  "AntShares.Validator.Register" :> "Neo.Validator.Register" @@
  "AntShares.Asset.Create" :> "Neo.Asset.Create" @@
  "AntShares.Asset.Renew" :> "Neo.Asset.Renew" @@
  "AntShares.Contract.Create" :> "Neo.Contract.Create" @@
  "AntShares.Contract.Migrate" :> "Neo.Contract.Migrate" @@
  "AntShares.Contract.GetStorageContext" :> "Neo.Contract.GetStorageContext" @@
  "AntShares.Contract.Destroy" :> "Neo.Contract.Destroy" @@
  "AntShares.Storage.Put" :> "Neo.Storage.Put" @@
  "AntShares.Storage.Delete" :> "Neo.Storage.Delete"

SYS_CALL_STRING_LENGTH == 252

\* variant: the name is looked up as it is written, without the alias table
canonicalNameAsWritten(sysCallName) == sysCallName

\* SYSCALL_ALIASES[sysCallName] || sysCallName
canonicalName(sysCallName) ==
  IF sysCallName \in DOMAIN SYSCALL_ALIASES THEN SYSCALL_ALIASES[sysCallName]
  ELSE sysCallName

\* SYSCALLS[canonicalName]({ context: nextContext })
createCall(name, nextContext) ==
  IF name \notin DOMAIN SYSCALLS THEN Throw("UnknownSysCall")
  ELSE createSysCall(SYSCALLS[name], nextContext)

\* reader.readVarBytesLE(252) at pc, then the alias and the primary table; n is
\* the length byte
lookupSysCallOfLength(ctx, n) ==
  IF n > SYS_CALL_STRING_LENGTH \/ ctx.pc + 1 + n > Len(ctx.code)
  THEN Throw("InvalidFormat")
  ELSE createCall(
         canonicalName(toASCII(slice(ctx.code, ctx.pc + 1, ctx.pc + 1 + n))),
         [ctx EXCEPT !.pc = ctx.pc + 1 + n])

lookupSysCall(ctx) ==
  IF ctx.pc >= Len(ctx.code) THEN Throw("RangeError")
  ELSE lookupSysCallOfLength(ctx, ctx.code[ctx.pc + 1])

----------------------------------------------------------------------------
(* The opcode table (OPCODES) and lookupOp *)

\* stack[k] of the source (0-based), null beyond the end
stackAt(stack, k) == IF Len(stack) >= k + 1 THEN stack[k + 1] ELSE [t |-> "null"]

\* the items one group of CHECKMULTISIG takes when `item` is on its top: 1 for an
\* array (or nothing), else 1 + count with count > least
groupIn(item, least) ==
  IF item.t = "null" \/ isArray(item) THEN [err |-> "none", n |-> 1]
  ELSE IF ~canBigInteger(item) THEN [err |-> "InvalidType", n |-> 0]
  ELSE IF toNumber(asBigInteger(item)) <= least
       THEN [err |-> "InvalidCheckMultisigArguments", n |-> 0]
  ELSE [err |-> "none", n |-> 1 + toNumber(asBigInteger(item))]

addGroups(first, second) ==
  IF second.err # "none" THEN second
  ELSE [err |-> "none", n |-> first.n + second.n]

secondGroupIn(stack, first) ==
  IF first.err # "none" THEN first
  ELSE addGroups(first, groupIn(stackAt(stack, first.n), -1))

\* the `in` of CHECKMULTISIG, read off the stack before anything is popped
CheckMultisigIn(stack) == secondGroupIn(stack, groupIn(stackAt(stack, 0), 0))

\* the `in` of PACK
PackIn(stack) ==
  IF Len(stack) = 0 THEN [err |-> "none", n |-> 1]
  ELSE IF ~canBigInteger(stack[1]) THEN [err |-> "InvalidType", n |-> 0]
  ELSE IF 1 + toNumber(asBigInteger(stack[1])) < 0
       THEN [err |-> "InvalidPackCount", n |-> 0]
  ELSE [err |-> "none", n |-> 1 + toNumber(asBigInteger(stack[1]))]

\* the `out` of UNPACK
UnpackOut(stack, hp) ==
  IF Len(stack) = 0 THEN [err |-> "none", n |-> 1]
  ELSE IF ~isArray(stack[1]) THEN [err |-> "InvalidType", n |-> 0]
  ELSE [err |-> "none", n |-> 1 + Len(hp[stack[1].v])]

\* a descriptor whose field f is the count c read off the stack
createCounted(d, f, c, ctx) ==
  IF c.err # "none" THEN Throw(c.err)
  ELSE createOp((f :> c.n) @@ d, ctx)

\* OPCODES[opCode]({ context }); UnknownOp when the byte has no entry
OPCODES(opCode, ctx, hp) ==
  CASE opCode = PUSH0 -> createOp([name |-> "PUSH0", out |-> 1], ctx)
    [] opCode \in 1..75 ->
         createOp([name |-> "PUSHBYTES", arg |-> opCode, out |-> 1], ctx)
    [] opCode = PUSHDATA1 -> pushData("PUSHDATA1", 1, ctx)
    [] opCode = PUSHDATA2 -> pushData("PUSHDATA2", 2, ctx)
    [] opCode = PUSHDATA4 -> pushData("PUSHDATA4", 4, ctx)
    [] opCode = PUSHM1 -> pushNumber("PUSHM1", -1, ctx)
    [] opCode \in PUSH1..PUSH16 -> pushNumber("PUSH", opCode - 80, ctx)
    [] opCode = NOP -> createOp([name |-> "NOP"], ctx)
    [] opCode = JMP -> jump("JMP", ctx)
    [] opCode = JMPIF -> jump("JMPIF", ctx)
    [] opCode = JMPIFNOT -> jump("JMPIFNOT", ctx)
    [] opCode = CALL -> createOp([name |-> "CALL", invocation |-> 1], ctx)
    [] opCode = RET -> createOp([name |-> "RET"], ctx)
    [] opCode = APPCALL -> call("APPCALL", FALSE, ctx)
    [] opCode = SYSCALL -> lookupSysCall(ctx)
    [] opCode = TAILCALL -> call("TAILCALL", TRUE, ctx)
    [] opCode = DUPFROMALTSTACK ->
         createOp([name |-> "DUPFROMALTSTACK", inAlt |-> 1, out |-> 1,
                   outAlt |-> 1], ctx)
    [] opCode = TOALTSTACK ->
         createOp([name |-> "TOALTSTACK", in |-> 1, outAlt |-> 1], ctx)
    [] opCode = FROMALTSTACK ->
         createOp([name |-> "FROMALTSTACK", inAlt |-> 1, out |-> 1], ctx)
    [] opCode = XDROP ->
         createOp([name |-> "XDROP", in |-> 1, modify |-> -1], ctx)
    [] opCode = XSWAP -> createOp([name |-> "XSWAP", in |-> 1], ctx)
    [] opCode = XTUCK ->
         createOp([name |-> "XTUCK", in |-> 1, modify |-> 1], ctx)
    [] opCode = DEPTH -> createOp([name |-> "DEPTH", out |-> 1], ctx)
    [] opCode = DROP -> createOp([name |-> "DROP", in |-> 1], ctx)
    [] opCode = DUP -> createOp([name |-> "DUP", in |-> 1, out |-> 2], ctx)
    [] opCode = NIP -> createOp([name |-> "NIP", in |-> 2, out |-> 1], ctx)
    [] opCode = OVER -> createOp([name |-> "OVER", in |-> 2], ctx)
    [] opCode = PICK_ -> createOp([name |-> "PICK", in |-> 1, out |-> 1], ctx)
    [] opCode = ROLL ->
         createOp([name |-> "ROLL", in |-> 1, out |-> 1, modify |-> -1], ctx)
    [] opCode = ROT -> createOp([name |-> "ROT", in |-> 3, out |-> 3], ctx)
    [] opCode = SWAP -> createOp([name |-> "SWAP", in |-> 2, out |-> 2], ctx)
    [] opCode = TUCK -> createOp([name |-> "TUCK", in |-> 2, out |-> 3], ctx)
    [] opCode = CAT -> createOp([name |-> "CAT", in |-> 2, out |-> 1], ctx)
    [] opCode = RIGHT -> createOp([name |-> "RIGHT", in |-> 2, out |-> 1], ctx)
    [] opCode = CHECKSIG ->
         createOp([name |-> "CHECKSIG", in |-> 2, out |-> 1], ctx)
    [] opCode = CHECKMULTISIG ->
         createCounted([name |-> "CHECKMULTISIG", out |-> 1], "in",
                       CheckMultisigIn(ctx.stack), ctx)
    [] opCode = ARRAYSIZE ->
         createOp([name |-> "ARRAYSIZE", in |-> 1, out |-> 1], ctx)
    [] opCode = PACK ->
         createCounted([name |-> "PACK", out |-> 1], "in", PackIn(ctx.stack),
                       ctx)
    [] opCode = UNPACK ->
         createCounted([name |-> "UNPACK", in |-> 1], "out",
                       UnpackOut(ctx.stack, hp), ctx)
    [] opCode = PICKITEM ->
         createOp([name |-> "PICKITEM", in |-> 2, out |-> 1], ctx)
    [] opCode = SETITEM -> createOp([name |-> "SETITEM", in |-> 3], ctx)
    [] opCode = NEWARRAY ->
         createOp([name |-> "NEWARRAY", in |-> 1, out |-> 1], ctx)
    [] opCode = NEWSTRUCT ->
         createOp([name |-> "NEWSTRUCT", in |-> 1, out |-> 1], ctx)
    [] opCode = THROW -> createOp([name |-> "THROW"], ctx)
    [] opCode = THROWIFNOT -> createOp([name |-> "THROWIFNOT", in |-> 1], ctx)
    [] OTHER -> Throw("UnknownOp")

\* the property lookupOp reads for the push-only check
PushOnlyProperty(ctx) ==
  IF "PushOnly" \in DOMAIN ctx THEN ctx.PushOnly ELSE FALSE

\* the push-only test of lookupOp on the descriptor built for opCode
pushOnlyCheck(opCode, op, ctx) ==
  IF op.err = "UnknownOp" THEN op
  ELSE IF opCode > PUSH16 /\ opCode # RET /\ PushOnlyProperty(ctx)
       THEN Throw("PushOnly")
       ELSE op

\* code[pc] is undefined for a negative pc, and OPCODES has no such entry
lookupOp(ctx, hp) ==
  IF ctx.pc < 0 THEN Throw("UnknownOp")
  ELSE
  pushOnlyCheck(ctx.code[ctx.pc + 1],
                OPCODES(ctx.code[ctx.pc + 1], [ctx EXCEPT !.pc = ctx.pc + 1], hp),
                ctx)

----------------------------------------------------------------------------
(* Collaborators the opcodes call into *)

\* the list of scripts of the model, used to make hash160 injective on them
RECURSIVE IndexOf(_, _, _)
IndexOf(list, x, i) ==
  IF i > Len(list) THEN 0
  ELSE IF list[i] = x THEN i ELSE IndexOf(list, x, i + 1)

\* a well-formed public key starts with the prefix byte of a compressed point
isPublicKey(pk) == Len(pk) >= 1 /\ pk[1] \in {2, 3}

\* the one signature that verifies under publicKey for the container's message
SignatureOf(pk) == Reverse(pk)

\* crypto.verify({ message, signature, publicKey }): "true", "false" or "throw"
verify(signature, publicKey) ==
  IF ~isPublicKey(publicKey) THEN "throw"
  ELSE IF signature = SignatureOf(publicKey) THEN "true"
  ELSE "false"

RECURSIVE clone(_, _, _)
RECURSIVE cloneItems(_, _, _, _)
\* the struct built from the cloned elements r
cloned(r) ==
  [err |-> r.err, heap |-> Append(r.heap, r.items),
   item |-> StructStackItem(Len(r.heap) + 1)]
\* cloneItems resumed after element i was cloned into c
cloneRest(c, hp, items, i, fuel) ==
  IF c.err # "none" THEN [err |-> c.err, heap |-> hp, items |-> items]
  ELSE cloneItems(c.heap, [items EXCEPT ![i] = c.item], i + 1, fuel)
\* StructStackItem.clone: a new struct whose struct elements are cloned in turn
clone(hp, item, fuel) ==
  IF item.t # "Struct" THEN [err |-> "none", heap |-> hp, item |-> item]
  ELSE IF fuel = 0 THEN [err |-> "RangeError", heap |-> hp, item |-> item]
  ELSE cloned(cloneItems(hp, hp[item.v], 1, fuel - 1))
cloneItems(hp, items, i, fuel) ==
  IF i > Len(items) THEN [err |-> "none", heap |-> hp, items |-> items]
  ELSE cloneRest(clone(hp, items[i], fuel), hp, items, i, fuel)

\* variant: SETITEM stores every item as it is
setItemReference(hp, newItem) == [err |-> "none", heap |-> hp, item |-> newItem]

\* the item SETITEM stores for newItem
setItemValue(hp, newItem) ==
  IF newItem.t = "Struct" THEN clone(hp, newItem, Len(hp))
  ELSE [err |-> "none", heap |-> hp, item |-> newItem]

RECURSIVE checkMultisigLoop(_, _, _, _)
\* variant: the loop gives up as soon as no key is left over
checkMultisigBodyEager(publicKeys, signatures, i, j, currentResult) ==
  IF currentResult = "throw" THEN FALSE
  ELSE IF Len(signatures) - (IF currentResult = "true" THEN i + 1 ELSE i)
            >= Len(publicKeys) - (j + 1)
  THEN FALSE
  ELSE checkMultisigLoop(publicKeys, signatures,
                         IF currentResult = "true" THEN i + 1 ELSE i, j + 1)
\* variant: a key that has verified a signature is tried for the next one too
checkMultisigBodySameKey(publicKeys, signatures, i, j, currentResult) ==
  IF currentResult = "throw" THEN FALSE
  ELSE IF currentResult = "true"
  THEN checkMultisigLoop(publicKeys, signatures, i + 1, j)
  ELSE IF Len(signatures) - i > Len(publicKeys) - (j + 1) THEN FALSE
  ELSE checkMultisigLoop(publicKeys, signatures, i, j + 1)
\* one pass of the loop body, given the outcome of crypto.verify
checkMultisigBody(publicKeys, signatures, i, j, currentResult) ==
  IF currentResult = "throw" THEN FALSE
  ELSE IF Len(signatures) - (IF currentResult = "true" THEN i + 1 ELSE i)
            > Len(publicKeys) - (j + 1)
  THEN FALSE
  ELSE checkMultisigLoop(publicKeys, signatures,
                         IF currentResult = "true" THEN i + 1 ELSE i, j + 1)
\* the for loop of CHECKMULTISIG from (i, j) on, 0-based as in the source
checkMultisigLoop(publicKeys, signatures, i, j) ==
  IF ~(i < Len(signatures) /\ j < Len(publicKeys)) THEN TRUE
  ELSE checkMultisigBody(publicKeys, signatures, i, j,
                         verify(signatures[i + 1], publicKeys[j + 1]))

\* CHECKSIG's Boolean
checkSig(publicKey, signature) == verify(signature, publicKey) = "true"

\* a group of CHECKMULTISIG: the buffers of an array item or of count-prefixed items
allBuffers(items) == \A k \in 1..Len(items) : canBuffer(items[k])
buffersOf(items) == [k \in 1..Len(items) |-> asBuffer(items[k])]

----------------------------------------------------------------------------
(* The scripts the model runs *)

PushBytes(b) == <<Len(b)>> \o b
Int16LE(n) == LET u == IF n < 0 THEN n + 65536 ELSE n IN <<u % 256, u \div 256>>
Jump(opCode, offset) == <<opCode>> \o Int16LE(offset)
AppCall(opCode, k) == <<opCode>> \o UInt160Of(k)
SysCall(name) == <<SYSCALL, Len(ASCII[name])>> \o ASCII[name]
Push(n) == 80 + n

\* PUSHBYTES1 m; SYSCALL Neo.Runtime.Log
Log(m) == PushBytes(<<m>>) \o SysCall("Neo.Runtime.Log")
\* PUSH0 PACK; SYSCALL Neo.Runtime.Notify
Notify == <<PUSH0, PACK>> \o SysCall("Neo.Runtime.Notify")

\* the nine arguments of Neo.Contract.Create for `script`, then the call
CreateContract(script) ==
  <<PUSH0, PUSH0, PUSH0, PUSH0, PUSH0, PUSH1, PUSH0, PUSH0>> \o
  PushBytes(script) \o SysCall("Neo.Contract.Create")

GetStorageContext == SysCall("Neo.Contract.GetStorageContext")

\* the nine arguments of Neo.Contract.Create or Migrate (`name`) for `script`,
\* hasStorage pushed by `storage` (PUSH0 or PUSH1), then the call
ContractCall(name, script, storage) ==
  <<PUSH0, PUSH0, PUSH0, PUSH0, PUSH0, storage, PUSH0, PUSH0>> \o
  PushBytes(script) \o SysCall(name)

\* PUSH1 newOp builds the item a; PUSH1 NEWARRAY the array dest; dest[0] := a;
\* a[0] := 7; the script ends with dest[0][0] on top of the stack
SetItemScript(newOp) ==
  <<PUSH1, newOp, TOALTSTACK, PUSH1, NEWARRAY, DUP, PUSH0, DUPFROMALTSTACK,
    SETITEM, FROMALTSTACK, PUSH0, Push(7), SETITEM, PUSH0, PICKITEM, PUSH0,
    PICKITEM, RET>>

\* one item, then n items and the count n (an Integer), PACK, UNPACK
PackScript(n) ==
  <<Push(5)>> \o [i \in 1..n |-> Push(i)] \o
  <<IF n = 0 THEN PUSH0 ELSE Push(n), PACK, UNPACK, RET>>

\* PACK with the count -1 (PUSHM1) and with the count -2 (the Buffer 0xFE)
\* on top of one item
PacksMinusOne == <<Push(5), PUSHM1, PACK>>
PacksMinusTwo == <<Push(5)>> \o PushBytes(<<254>>) \o <<PACK>>

\* the same with the count pushed as a one-byte Buffer
PackBufferScript(n) ==
  <<Push(5)>> \o [i \in 1..n |-> Push(i)] \o PushBytes(<<n>>) \o
  <<PACK, UNPACK, RET>>

\* CHECKSIG on (pk, sig), then CHECKMULTISIG on ([pk], [sig]); both Booleans stay
CheckSigScript(pk, sig) ==
  PushBytes(sig) \o PushBytes(pk) \o <<CHECKSIG, TOALTSTACK>> \o
  PushBytes(sig) \o <<PUSH1, PACK>> \o PushBytes(pk) \o
  <<PUSH1, PACK, CHECKMULTISIG, FROMALTSTACK, RET>>

PublicKeys == << <<2, 1>>, <<3, 7>>, <<0, 1>> >>
Signatures == << <<1, 2>>, <<7, 3>>, <<9, 9>> >>

\* the lists of n items of the sequence `choices`
ListsOf(choices, n) == [1..n -> {choices[k] : k \in 1..Len(choices)}]

\* the key lists and signature lists given to CHECKMULTISIG: up to MaxKeys keys,
\* well-formed or not, and as many or fewer signatures of the well-formed keys
KeyLists == UNION {ListsOf(PublicKeys, n) : n \in 1..MaxKeys}
SignatureLists(n) ==
  UNION {ListsOf(SubSeq(Signatures, 1, 2), m) : m \in 1..n}

\* push list[k], ..., list[1]: list[1] ends on top
RECURSIVE PushDown(_, _)
PushDown(list, k) ==
  IF k = 0 THEN <<>> ELSE PushBytes(list[k]) \o PushDown(list, k - 1)

\* one group of CHECKMULTISIG: the items and their count, packed into an array
\* or left as they are
Group(list, packed) ==
  PushDown(list, Len(list)) \o <<Push(Len(list))>> \o
  (IF packed THEN <<PACK>> ELSE <<>>)

\* PUSH9, the signatures, the public keys, CHECKMULTISIG
MultisigScript(keys, sigs, keysPacked, sigsPacked) ==
  <<Push(9)>> \o Group(sigs, sigsPacked) \o Group(keys, keysPacked) \o
  <<CHECKMULTISIG>>

\* contracts: the position in KnownScripts is the first byte of the script hash
LeafScript == Log(2) \o <<PUSH1, DROP, RET>>
SubCallScript == Log(3) \o Jump(CALL, 5) \o <<NOP, RET>> \o Notify
ThrowScript == <<PUSH1, THROW, PUSH1>>
StoredScript == <<NOP, RET>>
NewScript == <<NOP, NOP, RET>>
CreatorScript == CreateContract(NewScript)
CreatorUserScript == CreateContract(NewScript) \o GetStorageContext
SelfCallScript == AppCall(APPCALL, 8)
UseContextScript == GetStorageContext \o <<RET>>
LookupScript ==
  PushBytes(UInt160Of(4)) \o SysCall("Neo.Blockchain.GetContract") \o
  GetStorageContext
ThrowDeepScript == AppCall(APPCALL, 3) \o <<Push(3)>>

\* storage calls on the context that lies on top of the stack, which they
\* leave there; Get moves its result to the alt stack
Put(k, v) ==
  <<DUP>> \o PushBytes(<<v>>) \o PushBytes(<<k>>) \o <<ROT>> \o
  SysCall("Neo.Storage.Put")
Get(k) ==
  <<DUP>> \o PushBytes(<<k>>) \o <<SWAP>> \o SysCall("Neo.Storage.Get") \o
  <<TOALTSTACK>>
Delete(k) ==
  <<DUP>> \o PushBytes(<<k>>) \o <<SWAP>> \o SysCall("Neo.Storage.Delete")

\* reads and writes the caller's storage through the context the caller passes
StorageCalleeScript == Get(1) \o Put(1, 7) \o Put(2, 8) \o Delete(2) \o <<RET>>
\* reads and writes its own storage, before and after calling
\* StorageCalleeScript with its context
StorageScript ==
  SysCall("Neo.Storage.GetContext") \o Get(1) \o Get(3) \o Put(1, 5) \o
  Put(1, 6) \o Get(1) \o AppCall(APPCALL, 13) \o Get(1) \o Get(2) \o
  Put(2, 4) \o <<RET>>
\* asks for the calling and the entry script hash, also in a CALL frame
GetCallingScriptHash == SysCall("System.ExecutionEngine.GetCallingScriptHash")
GetEntryScriptHash == SysCall("System.ExecutionEngine.GetEntryScriptHash")
HashesScript ==
  GetCallingScriptHash \o GetEntryScriptHash \o Jump(CALL, 4) \o <<RET>> \o
  GetCallingScriptHash \o <<RET>>
\* calls HashesScript, then jumps into it
HashesViaScript == AppCall(APPCALL, 15) \o AppCall(TAILCALL, 15)
\* asks for its own hash and storage context, before and after a call
OwnHashScript ==
  SysCall("System.ExecutionEngine.GetExecutingScriptHash") \o
  SysCall("Neo.Storage.GetContext") \o AppCall(APPCALL, 1) \o
  SysCall("System.ExecutionEngine.GetExecutingScriptHash") \o
  SysCall("Neo.Storage.GetContext") \o <<RET>>
\* writes one item, migrates to NewScript and reads the item of NewScript
MigratorScript ==
  SysCall("Neo.Storage.GetContext") \o Put(1, 5) \o
  ContractCall("Neo.Contract.Migrate", NewScript, PUSH1) \o
  GetStorageContext \o Get(1) \o <<RET>>
\* writes two items, then migrates to `script` with or without storage
MigratorOf(script, storage) ==
  SysCall("Neo.Storage.GetContext") \o Put(1, 5) \o Put(2, 6) \o
  ContractCall("Neo.Contract.Migrate", script, storage) \o <<RET>>
\* writes one item and returns its context
KeeperScript == SysCall("Neo.Storage.GetContext") \o Put(1, 5) \o <<RET>>

Contracts ==
  <<LeafScript, SubCallScript, ThrowScript, StoredScript, NewScript,
    CreatorScript, CreatorUserScript, SelfCallScript, UseContextScript,
    LookupScript, ThrowDeepScript, StorageScript, StorageCalleeScript,
    KeeperScript, HashesScript, HashesViaScript, OwnHashScript,
    MigratorScript, MigratorOf(StoredScript, PUSH1),
    MigratorOf(NewScript, PUSH0), MigratorOf(NewScript, PUSH1)>>

\* NewScript is in no block yet: a script creates it during its run
Deployed == {1, 2, 3, 4, 6, 7, 8, 9, 10, 11, 12, 13, 14, 15, 16,
             17, 18, 19, 20, 21}

\* the accounts that exist before the run: VoterHash holds one governing token
\* FrozenHash is frozen, BrokeHash holds nothing and has voted for one key
Accounts ==
  {[hash |-> UInt160Of(50), isFrozen |-> FALSE, votes |-> <<>>,
    balances |-> (UInt256Of(0) :> 1)],
   [hash |-> UInt160Of(53), isFrozen |-> TRUE, votes |-> <<>>,
    balances |-> (UInt256Of(0) :> 1)],
   [hash |-> UInt160Of(54), isFrozen |-> FALSE, votes |-> <<ECPointOf(2)>>,
    balances |-> (UInt256Of(0) :> 0)]}

\* the storage items that exist before the run
StoredItems == {[hash |-> UInt160Of(12), key |-> <<3>>, value |-> <<9>>]}

\* entry scripts
DupLoop == <<PUSH1, DUP>> \o Jump(JMP, -1)
AltLoop == <<PUSH1, TOALTSTACK>> \o Jump(JMP, -2)
OverLoop == <<PUSH1, PUSH1, OVER>> \o Jump(JMP, -1)
NestedDupLoop == Jump(CALL, 4) \o <<RET, PUSH1, DUP>> \o Jump(JMP, -1)
CallLoop == Jump(CALL, 0)
Nops == <<NOP, NOP, NOP, RET>>
CallTreeMiddle ==
  AppCall(APPCALL, 1) \o Notify \o AppCall(APPCALL, 2) \o Log(4) \o
  AppCall(TAILCALL, 1) \o Log(5)
CallTree ==
  Log(1) \o Jump(CALL, 3 + Len(CallTreeMiddle)) \o CallTreeMiddle \o
  Log(6) \o <<RET>>
ThrowInAppCall == <<PUSH1>> \o AppCall(APPCALL, 3) \o <<Push(2)>>
ThrowInCall == Jump(CALL, 4) \o <<Push(2), THROW>>
ThrowInTailCall == AppCall(TAILCALL, 3) \o <<Push(2)>>
ThrowDeep == AppCall(APPCALL, 11) \o <<Push(2)>>
FaultInSysCall == AppCall(APPCALL, 10) \o <<Push(2)>>
CreateExisting == CreateContract(StoredScript) \o GetStorageContext
OtherCreates == AppCall(APPCALL, 6) \o GetStorageContext
OtherUses == AppCall(APPCALL, 6) \o AppCall(APPCALL, 9)
OwnerUses == AppCall(APPCALL, 7) \o <<RET>>

\* the legacy names: a log, a notification and a contract creation through
\* their AntShares aliases, then a legacy name that has no alias
AliasCalls ==
  PushBytes(<<1>>) \o SysCall("AntShares.Runtime.Log") \o
  <<PUSH0, PACK>> \o SysCall("AntShares.Runtime.Notify") \o
  <<PUSH0, PUSH0, PUSH0, PUSH0, PUSH0, PUSH1, PUSH0, PUSH0>> \o
  PushBytes(NewScript) \o SysCall("AntShares.Contract.Create") \o
  SysCall("AntShares.Runtime.GetTrigger")

\* the hashes at top level, in a callee, in the callee of a callee
AsksHashes ==
  GetCallingScriptHash \o GetEntryScriptHash \o AppCall(APPCALL, 16)
\* the hashes in the second contract a script calls, and at top level after it
AsksHashesTwice ==
  AppCall(APPCALL, 1) \o AppCall(APPCALL, 15) \o GetCallingScriptHash
\* votes of the account VoterHash for one key; registration of that key as a
\* validator; creation of an asset of type Token owned by that key
VoterHash == UInt160Of(50)
SetsVotes ==
  PushBytes(ECPointOf(1)) \o <<PUSH1, PACK>> \o PushBytes(VoterHash) \o
  SysCall("Neo.Blockchain.GetAccount") \o SysCall("Neo.Account.SetVotes")
Registers == PushBytes(ECPointOf(1)) \o SysCall("Neo.Validator.Register")
CreatesAssetOf(type) ==
  PushBytes(UInt160Of(51)) \o PushBytes(UInt160Of(52)) \o
  PushBytes(ECPointOf(1)) \o <<PUSH0, PUSH1>> \o PushBytes(<<65>>) \o
  PushBytes(<<type>>) \o SysCall("Neo.Asset.Create")
CreatesAsset == CreatesAssetOf(96)
WitnessEntries == {SetsVotes, Registers, CreatesAsset}
\* Neo.Account.SetVotes for the account `hash` with the vote list that the
\* caller of executeScript has put on the stack
FrozenHash == UInt160Of(53)
BrokeHash == UInt160Of(54)
SetsGivenVotes(hash) ==
  PushBytes(hash) \o SysCall("Neo.Blockchain.GetAccount") \o
  SysCall("Neo.Account.SetVotes")
\* Neo.Account.GetBalance of the asset with the id `asset` for the voter
AsksBalance(asset) ==
  PushBytes(asset) \o PushBytes(VoterHash) \o
  SysCall("Neo.Blockchain.GetAccount") \o SysCall("Neo.Account.GetBalance")
\* the lengths of the vote lists given
VoteCounts == {0, 1, MAX_VOTES, MAX_VOTES + 1}

\* Create and Migrate of a new contract without storage and of an existing one
CreateNoStorage == ContractCall("Neo.Contract.Create", NewScript, PUSH0)
MigrateNoStorage == ContractCall("Neo.Contract.Migrate", NewScript, PUSH0)
MigrateExisting == ContractCall("Neo.Contract.Migrate", StoredScript, PUSH1)
Migrates == AppCall(APPCALL, 18)
\* call the contract that migrates to an existing contract, to a new one
\* without storage, to a new one with storage
MigratesToExisting == AppCall(APPCALL, 19)
MigratesToPlain == AppCall(APPCALL, 20)
MigratesToNew == AppCall(APPCALL, 21)
AsksOwnHash == AppCall(APPCALL, 17) \o <<NOP>>
\* PUSH1, JMPIF offset, PUSH7, RET, PUSH9, RET
JumpIf(offset) ==
  <<PUSH1>> \o Jump(JMPIF, offset) \o <<Push(7), RET, Push(9), RET>>
UsesStorage == AppCall(APPCALL, 12) \o Get(2)
\* destroys the contract that wrote an item, creates it again and reads the item
DestroysStorage ==
  AppCall(APPCALL, 14) \o PushBytes(UInt160Of(14)) \o
  SysCall("Neo.Contract.Destroy") \o CreateContract(KeeperScript) \o
  <<DROP>> \o Get(1)

\* top, jump with offset, PUSH7, RET, PUSH9, RET: the jump opcode is byte 1, the
\* code has 8 bytes; the offsets reach -1, PUSH9, the end of the code and one
\* byte behind it
JumpScript(top, opCode, offset) ==
  <<top>> \o Jump(opCode, offset) \o <<Push(7), RET, Push(9), RET>>
JumpTops == <<PUSH0, PUSH1>>
JumpOps == <<JMP, JMPIF, JMPIFNOT>>
JumpOffsets == <<-2, 5, 7, 8>>
JumpEntries ==
  [k \in 1..(Len(JumpTops) * Len(JumpOps) * Len(JumpOffsets)) |->
     JumpScript(JumpTops[((k - 1) % Len(JumpTops)) + 1],
                JumpOps[(((k - 1) \div Len(JumpTops)) % Len(JumpOps)) + 1],
                JumpOffsets[((k - 1) \div (Len(JumpTops) * Len(JumpOps))) + 1])]
  \o <<Jump(JMP, 0), Jump(JMP, -1)>>

\* Neo.Contract.Destroy of the contract with the script number k
Destroy(k) == PushBytes(UInt160Of(k)) \o SysCall("Neo.Contract.Destroy")
\* a contract writes two items and is destroyed; a contract without storage is
\* created and destroyed; a hash without contract is destroyed
DestroysTwoItems == AppCall(APPCALL, 20) \o Destroy(20) \o <<NOP>>
DestroysPlain == CreateNoStorage \o Destroy(5)
DestroysNothing == Destroy(5)

\* the count n pushed as a two-byte Buffer, then NEWARRAY, NEWSTRUCT or PACK
Counted(n, opCode) == PushBytes(Int16LE(n)) \o <<opCode>>
\* the collection lengths asked for, around MAX_ARRAY_SIZE
ArraySizes == {MAX_ARRAY_SIZE - 1, MAX_ARRAY_SIZE, MAX_ARRAY_SIZE + 1}
\* and around 0
SmallSizes == -2..2
\* CAT of two buffers, of a buffer and an integer, of a buffer and an array
Concats(n) ==
  <<PushBytes(<<1, 2>>) \o PushBytes(<<3>>) \o <<CAT>>,
    PushBytes(<<1, 2>>) \o <<PUSH0, CAT, Push(3), CAT>>,
    PushBytes(<<1, 2>>) \o <<PUSH0, NEWARRAY, CAT>>>>[n]

\* RIGHT with the count pushed by `count` on the buffer b
Rights(b, count) ==
  (IF b = <<>> THEN <<PUSH0>> ELSE PushBytes(b)) \o <<count, RIGHT>>
RightBuffers == {<<>>, <<1, 2, 3>>}
RightCounts == {PUSHM1, PUSH0, Push(1), Push(2), Push(3), Push(4)}

\* pushes of data: the opcode and its length prefix, then `given` bytes of data
\* where the prefix declares `declared` bytes
PushData(opCode, declared, given) ==
  (CASE opCode = PUSHDATA1 -> <<opCode, declared>>
     [] opCode = PUSHDATA2 -> <<opCode>> \o Int16LE(declared)
     [] opCode = PUSHDATA4 -> <<opCode>> \o Int16LE(declared) \o <<0, 0>>
     [] OTHER -> <<declared>>) \o [k \in 1..given |-> 10 + k]
\* 1..3 bytes declared, up to 3 bytes given
PushDataScripts ==
  {PushData(opCode, declared, given) :
     opCode \in {0, PUSHDATA1, PUSHDATA2, PUSHDATA4}, declared \in 1..3,
     given \in 0..3} \cup
  {<<PUSHDATA1, 0>>, <<PUSHDATA1>>, <<PUSHDATA2, 2>>, <<PUSHDATA4, 1, 0, 0>>}
\* PUSHDATA4 with the lengths -1, -5 and -6
PushNegative(n) == <<PUSHDATA4, 256 + n, 255, 255, 255>>

\* `items` items (7, 8, ...; the last on top), the index pushed by `index`,
\* then XDROP, XSWAP, XTUCK, PICK or ROLL
Indexed(items, index, opCode) ==
  [k \in 1..items |-> Push(6 + k)] \o <<index, opCode>>
IndexedOps == {XDROP, XSWAP, XTUCK, PICK_, ROLL}
Indexes == {PUSHM1, PUSH0, Push(1), Push(2), Push(3)}

\* PUSH1, DROP and a JMP back to the PUSH1
JumpCycle == <<PUSH1, DROP>> \o Jump(JMP, -2)

\* scripts run with pushOnly = true: pushes and RET only; with NOP, DUP, a
\* system call, THROW in between
PushOnlyEntries ==
  {<<PUSH0, PUSHM1, PUSH1, PUSH16, RET, PUSH1>>,
   <<PUSH1, NOP, PUSH1, RET>>,
   <<PUSH1, DUP, RET>>,
   Log(1) \o <<RET>>,
   <<PUSH1, THROW>>}

Entries ==
  <<DupLoop, AltLoop, OverLoop, NestedDupLoop, CallLoop, Nops, CallTree,
    ThrowInAppCall, ThrowInCall, ThrowInTailCall, ThrowDeep, FaultInSysCall,
    CreateExisting, OtherCreates, OtherUses, OwnerUses, AliasCalls,
    UsesStorage, DestroysStorage, JumpIf(5), JumpIf(6),
    AsksHashes, AsksHashesTwice, AsksOwnHash,
    CreateNoStorage, MigrateNoStorage, MigrateExisting, Migrates,
    SetsVotes, Registers, CreatesAsset,
    SetItemScript(NEWSTRUCT), SetItemScript(NEWARRAY)>> \o
  [n \in 1..(MaxPack + 1) |-> PackScript(n - 1)] \o
  [n \in 1..MaxPack |-> PackBufferScript(n)] \o
  [k \in 1..(Len(PublicKeys) * Len(Signatures)) |->
     CheckSigScript(PublicKeys[((k - 1) \div Len(Signatures)) + 1],
                    Signatures[((k - 1) % Len(Signatures)) + 1])] \o
  JumpEntries \o
  <<MigratesToExisting, MigratesToPlain, MigratesToNew,
    DestroysTwoItems, DestroysPlain, DestroysNothing,
    AsksBalance(UInt256Of(0)), AsksBalance(UInt256Of(9)),
    PacksMinusOne, PacksMinusTwo>>

KnownScripts == Contracts \o Entries

\* crypto.hash160, an injection from the scripts of the model to UInt160
hash160(b) == UInt160Of(IndexOf(KnownScripts, b, 1))

\* the inputs of executeScript: code, gasLeft, and the size of options.stack and
\* options.depth (a top-level run starts with an empty stack at depth 1; a run
\* started by a caller inherits the caller's stack and depth)
ScriptRuns ==
  {[code |-> Entries[i], pushOnly |-> FALSE, gasLeft |-> MaxGas, stack |-> 0,
    depth |-> 1] : i \in 1..Len(Entries)} \cup
  {[code |-> c, pushOnly |-> FALSE, gasLeft |-> g, stack |-> 0, depth |-> 1] :
     c \in {Nops, CreatorUserScript, SelfCallScript}, g \in 0..MaxGas} \cup
  {[code |-> c, pushOnly |-> FALSE, gasLeft |-> MaxGas,
    stack |-> MAX_STACK_SIZE - Margin, depth |-> 1] :
     c \in {DupLoop, AltLoop, OverLoop, NestedDupLoop}} \cup
  {[code |-> c, pushOnly |-> FALSE, gasLeft |-> MaxGas, stack |-> 0,
    depth |-> MAX_INVOCATION_STACK_SIZE - Margin] :
     c \in {CallLoop, SelfCallScript}} \cup
  {[code |-> c, pushOnly |-> TRUE, gasLeft |-> MaxGas, stack |-> 0,
    depth |-> 1] : c \in PushOnlyEntries}

\* init.scriptContainer: an invocation transaction (container type 0) whose
\* script hashes for verifying are S
Witnessed(S) ==
  [scriptContainer |->
     [type |-> 0,
      value |-> [type |-> "Invocation", hash |-> <<7>>],
      scriptHashesForVerifying |-> S]]
Unsigned == Witnessed({})
\* the same hashes for verifying in a transaction that is not an invocation
\* and in a container that is not a transaction (container type 1: a block)
InContractTransaction(S) ==
  [scriptContainer |->
     [type |-> 0,
      value |-> [type |-> "Contract", hash |-> <<8>>],
      scriptHashesForVerifying |-> S]]
InBlock(S) ==
  [scriptContainer |->
     [type |-> 1,
      value |-> [type |-> "Block", hash |-> <<9>>],
      scriptHashesForVerifying |-> S]]
Signed == Witnessed({VoterHash, getVerificationScriptHash(ECPointOf(1))})

\* the inputs of executeScript: code, pushOnly, init, gasLeft, and the size of
\* options.stack and options.depth
\* votes is the length of the vote list in options.stack, -1 when options.stack
\* holds integers only
Runs ==
  {[code |-> r.code, pushOnly |-> r.pushOnly, init |-> Unsigned,
    gasLeft |-> r.gasLeft, stack |-> r.stack, depth |-> r.depth,
    votes |-> -1] :
     r \in ScriptRuns} \cup
  {[code |-> c, pushOnly |-> FALSE, init |-> Signed, gasLeft |-> MaxGas,
    stack |-> 0, depth |-> 1, votes |-> -1] : c \in WitnessEntries} \cup
  {[code |-> SetsGivenVotes(h), pushOnly |-> FALSE, init |-> Signed,
    gasLeft |-> MaxGas, stack |-> 1, depth |-> 1, votes |-> n] :
     h \in {VoterHash, FrozenHash, BrokeHash}, n \in VoteCounts} \cup
  {[code |-> CreatesAssetOf(type), pushOnly |-> FALSE, init |-> i,
    gasLeft |-> MaxGas, stack |-> 0, depth |-> 1, votes |-> -1] :
     type \in {0, 1, 96},
     i \in {Signed,
            InContractTransaction({getVerificationScriptHash(ECPointOf(1))}),
            InBlock({getVerificationScriptHash(ECPointOf(1))})}} \cup
  UNION {{[code |-> MultisigScript(keys, sigs, keysPacked, sigsPacked),
           pushOnly |-> FALSE, init |-> Unsigned, gasLeft |-> MaxGas,
           stack |-> 0, depth |-> 1, votes |-> -1] :
            sigs \in SignatureLists(Len(keys)), keysPacked \in BOOLEAN,
            sigsPacked \in BOOLEAN} : keys \in KeyLists} \cup
  {[code |-> Counted(n, opCode), pushOnly |-> FALSE, init |-> Unsigned,
    gasLeft |-> MaxGas, stack |-> IF opCode = PACK THEN n ELSE 0, depth |-> 1,
    votes |-> -1] : n \in ArraySizes, opCode \in {NEWARRAY, NEWSTRUCT, PACK}} \cup
  {[code |-> Counted(n, opCode), pushOnly |-> FALSE, init |-> Unsigned,
    gasLeft |-> MaxGas, stack |-> 0, depth |-> 1, votes |-> -1] :
     n \in SmallSizes, opCode \in {NEWARRAY, NEWSTRUCT}} \cup
  {[code |-> Concats(n), pushOnly |-> FALSE, init |-> Unsigned,
    gasLeft |-> MaxGas, stack |-> 0, depth |-> 1, votes |-> -1] : n \in 1..3} \cup
  {[code |-> Rights(b, count), pushOnly |-> FALSE, init |-> Unsigned,
    gasLeft |-> MaxGas, stack |-> 0, depth |-> 1, votes |-> -1] :
     b \in RightBuffers, count \in RightCounts} \cup
  {[code |-> c, pushOnly |-> FALSE, init |-> Unsigned, gasLeft |-> MaxGas,
    stack |-> 0, depth |-> 1, votes |-> -1] :
     c \in PushDataScripts \cup {PushNegative(-1), PushNegative(-6)}} \cup
  {[code |-> Indexed(items, index, opCode), pushOnly |-> FALSE,
    init |-> Unsigned, gasLeft |-> MaxGas, stack |-> 0, depth |-> 1,
    votes |-> -1] :
     items \in 0..2, index \in Indexes, opCode \in IndexedOps} \cup
  {[code |-> JumpCycle, pushOnly |-> FALSE, init |-> Unsigned, gasLeft |-> g,
    stack |-> 0, depth |-> 1, votes |-> -1] : g \in 0..MaxGas} \cup
  {[code |-> PushNegative(-5), pushOnly |-> FALSE, init |-> Unsigned,
    gasLeft |-> MaxGas, stack |-> MAX_STACK_SIZE - Margin, depth |-> 1,
    votes |-> -1]}

\* a stack of n items
Filled(n) == [i \in 1..n |-> IntegerStackItem(1)]

\* options.stack of the run r and the arrays its items refer to: n integers, or
\* one array of r.votes public keys
givenStack(r) == IF r.votes < 0 THEN Filled(r.stack) ELSE <<ArrayStackItem(1)>>
givenHeap(r) ==
  IF r.votes < 0 THEN <<>>
  ELSE <<[k \in 1..r.votes |-> BufferStackItem(ECPointOf(1))]>>

----------------------------------------------------------------------------
(* invoke: the behaviour of each descriptor *)

\* an OpResult together with the heap and the ledger it leaves
Result(ctx, results, resultsAlt, hp, bc) ==
  [err |-> "none", context |-> ctx, results |-> results,
   resultsAlt |-> resultsAlt, heap |-> hp, blockchain |-> bc]

\* _.range(0, n).length: lodash counts down when n is negative
rangeLength(n) == IF n < 0 THEN -n ELSE n

\* blockchain.contract.tryGet({ hash })
hasContract(bc, hash) == \E c \in bc.contract : c.hash = hash
getContract(bc, hash) == CHOOSE c \in bc.contract : c.hash = hash

\* createContract of syscalls.js
createContract(ctx, args, bc) ==
  IF ~(canBuffer(args[1]) /\ canBuffer(args[2]) /\ canBigInteger(args[3]) /\
       canBoolean(args[4]) /\ \A k \in 5..9 : canBuffer(args[k]))
  THEN [err |-> "InvalidType"]
  ELSE LET script == asBuffer(args[1])
           hash == hash160(script)
       IN  IF hasContract(bc, hash)
           THEN [err |-> "none", contract |-> getContract(bc, hash),
                 created |-> FALSE, blockchain |-> bc]
           ELSE LET contract == [script |-> script,
                                 hasStorage |-> asBoolean(args[4]),
                                 hash |-> hash]
                IN  [err |-> "none", contract |-> contract, created |-> TRUE,
                     blockchain |->
                       [bc EXCEPT !.contract = @ \cup {contract}]]

\* Neo.Contract.Create
\* what Neo.Contract.Create does with the outcome r of createContract
recordCreated(r, ctx, hp) ==
  IF r.err # "none" THEN Throw(r.err)
  ELSE Result([ctx EXCEPT !.createdContracts =
                 (r.contract.hash :> ctx.scriptHash) @@ @],
              <<ContractStackItem(r.contract)>>, <<>>, hp, r.blockchain)

ContractCreate(ctx, args, hp, bc) ==
  recordCreated(createContract(ctx, args, bc), ctx, hp)

\* storageItem.getAll({ hash: from }) added again under the hash `to`
\* variant: the copies keep the keys and lose the values
copyItemsEmpty(bc, from, to) ==
  [bc EXCEPT !.storageItem =
     @ \cup {[hash |-> to, key |-> i.key, value |-> <<>>] :
               i \in {j \in @ : j.hash = from}}]

copyItems(bc, from, to) ==
  [bc EXCEPT !.storageItem =
     @ \cup {[hash |-> to, key |-> i.key, value |-> i.value] :
               i \in {j \in @ : j.hash = from}}]

\* what Neo.Contract.Migrate does with the outcome r of createContract
migrated(r, ctx, hp) ==
  IF r.err # "none" THEN Throw(r.err)
  ELSE IF r.contract.hasStorage /\ r.created
  THEN Result([ctx EXCEPT !.createdContracts =
                 (r.contract.hash :> ctx.scriptHash) @@ @],
              <<ContractStackItem(r.contract)>>, <<>>, hp,
              copyItems(r.blockchain, ctx.scriptHash, r.contract.hash))
  ELSE Result(ctx, <<ContractStackItem(r.contract)>>, <<>>, hp, r.blockchain)

\* Neo.Contract.Migrate
ContractMigrate(ctx, args, hp, bc) ==
  migrated(createContract(ctx, args, bc), ctx, hp)

\* Neo.Contract.GetStorageContext
ContractGetStorageContext(ctx, args, hp, bc) ==
  IF args[1].t # "Contract" THEN Throw("InvalidType")
  ELSE LET contract == args[1].v
       IN  IF contract.hash \notin DOMAIN ctx.createdContracts
           THEN Throw("TypeError")
           ELSE IF ctx.createdContracts[contract.hash] # ctx.scriptHash
           THEN Throw("InvalidContractGetStorageContext")
           ELSE Result(ctx, <<StorageContextStackItem(contract.hash)>>, <<>>,
                       hp, bc)

\* blockchain.storageItem.tryGet({ hash, key })
hasStorageItem(bc, hash, key) ==
  \E i \in bc.storageItem : i.hash = hash /\ i.key = key
getStorageItem(bc, hash, key) ==
  CHOOSE i \in bc.storageItem : i.hash = hash /\ i.key = key

\* vmUtils.toStorageContext followed by checkStorage: the error they throw
checkStorage(bc, item) ==
  IF item.t # "StorageContext" THEN "InvalidType"
  ELSE IF ~hasContract(bc, item.v) THEN "KeyNotFound"
  ELSE IF ~getContract(bc, item.v).hasStorage THEN "ContractNoStorage"
  ELSE "none"

\* Neo.Storage.Get
StorageGet(ctx, args, hp, bc) ==
  IF checkStorage(bc, args[1]) # "none" THEN Throw(checkStorage(bc, args[1]))
  ELSE IF ~canBuffer(args[2]) THEN Throw("InvalidType")
  ELSE Result(ctx,
              <<BufferStackItem(
                  IF hasStorageItem(bc, args[1].v, asBuffer(args[2]))
                  THEN getStorageItem(bc, args[1].v, asBuffer(args[2])).value
                  ELSE <<>>)>>,
              <<>>, hp, bc)

\* storageItem.delete({ hash, key })
withoutItem(bc, hash, key) ==
  [bc EXCEPT !.storageItem = {i \in @ : ~(i.hash = hash /\ i.key = key)}]

\* storageItem.add(new StorageItem(..)) or storageItem.update(item, { value })
withItem(bc, hash, key, value) ==
  [bc EXCEPT !.storageItem =
     {i \in @ : ~(i.hash = hash /\ i.key = key)} \cup
     {[hash |-> hash, key |-> key, value |-> value]}]

\* Neo.Storage.Put
StoragePut(ctx, args, hp, bc) ==
  IF checkStorage(bc, args[1]) # "none" THEN Throw(checkStorage(bc, args[1]))
  ELSE IF ~(canBuffer(args[2]) /\ canBuffer(args[3])) THEN Throw("InvalidType")
  ELSE Result(ctx, <<>>, <<>>, hp,
              withItem(bc, args[1].v, asBuffer(args[2]), asBuffer(args[3])))

\* variant: Delete leaves the item in place
StorageDeleteKeeps(ctx, args, hp, bc) == Result(ctx, <<>>, <<>>, hp, bc)

\* Neo.Storage.Delete
StorageDelete(ctx, args, hp, bc) ==
  IF checkStorage(bc, args[1]) # "none" THEN Throw(checkStorage(bc, args[1]))
  ELSE IF ~canBuffer(args[2]) THEN Throw("InvalidType")
  ELSE Result(ctx, <<>>, <<>>, hp,
              withoutItem(bc, args[1].v, asBuffer(args[2])))

\* no ledger operation is in flight
NoOperations == [hash |-> <<>>, hasStorage |-> FALSE, contract |-> FALSE,
                 items |-> {}]

\* variant: Destroy deletes the contract and leaves its storage items
destroyOperationsContractOnly(stack, bc) ==
  [hash |-> asBuffer(stack[1]),
   hasStorage |-> hasContract(bc, asBuffer(stack[1])) /\
                  getContract(bc, asBuffer(stack[1])).hasStorage,
   contract |-> hasContract(bc, asBuffer(stack[1])),
   items |-> {}]

\* the operations Neo.Contract.Destroy starts and awaits with Promise.all when
\* the contract exists: the delete of the contract and, if the contract has
\* storage, the deletes of the keys that getAll({ hash }) yields; stack[1] is
\* args[0]
destroyOperations(stack, bc) ==
  LET hash == asBuffer(stack[1])
  IN  IF ~hasContract(bc, hash) THEN NoOperations
      ELSE [hash |-> hash,
            hasStorage |-> getContract(bc, hash).hasStorage,
            contract |-> TRUE,
            items |-> IF getContract(bc, hash).hasStorage
                      THEN {i.key : i \in {j \in bc.storageItem : j.hash = hash}}
                      ELSE {}]

\* Neo.Contract.Destroy: the invoke itself returns the context it was given;
\* what it writes is written by the operations it awaits
ContractDestroy(ctx, args, hp, bc) ==
  IF ~(canBuffer(args[1]) /\ isUInt160(asBuffer(args[1])))
  THEN Throw("InvalidType")
  ELSE Result(ctx, <<>>, <<>>, hp, bc)

\* the value of an async function call that is not awaited: a promise, an object
Promise(value) == [type |-> "object", value |-> value]

\* JavaScript's !x: the negation of a boolean, false for every object
Not(x) == IF x.type = "boolean" THEN ~x.value ELSE FALSE

\* checkWitness, an async function: the caller gets a promise of the test
checkWitness(ctx, hash) ==
  Promise(hash \in ctx.init.scriptContainer.scriptHashesForVerifying)
checkWitnessPublicKey(ctx, publicKey) ==
  checkWitness(ctx, getVerificationScriptHash(publicKey))

\* blockchain.account.get({ hash })
hasAccount(bc, hash) == \E a \in bc.account : a.hash = hash
getAccount(bc, hash) == CHOOSE a \in bc.account : a.hash = hash

\* Neo.Blockchain.GetAccount
BlockchainGetAccount(ctx, args, hp, bc) ==
  IF ~(canBuffer(args[1]) /\ isUInt160(asBuffer(args[1])))
  THEN Throw("InvalidType")
  ELSE IF ~hasAccount(bc, asBuffer(args[1])) THEN Throw("KeyNotFound")
  ELSE Result(ctx, <<AccountStackItem(getAccount(bc, asBuffer(args[1])))>>,
              <<>>, hp, bc)

\* Account.isDeletable
isDeletable(account) ==
  /\ ~account.isFrozen
  /\ account.votes = <<>>
  /\ \A a \in DOMAIN account.balances : account.balances[a] <= ZERO

\* account.update(account, { votes }), then account.delete if it is deletable
withVotes(bc, account, votes) ==
  [bc EXCEPT !.account =
     {a \in @ : a.hash # account.hash} \cup
     (IF isDeletable([account EXCEPT !.votes = votes]) THEN {}
      ELSE {[account EXCEPT !.votes = votes]})]

\* vote.asECPoint() succeeds on each element
areECPoints(items) ==
  \A k \in 1..Len(items) : canBuffer(items[k]) /\ isECPoint(asBuffer(items[k]))

\* account.balances[asset] || utils.ZERO
balanceOf(account, asset) ==
  IF asset \in DOMAIN account.balances THEN account.balances[asset] ELSE ZERO

\* Neo.Account.GetBalance: args holds the `in` items the step has popped, and
\* reading a property of an element that is not there throws a TypeError
AccountGetBalance(ctx, args, hp, bc) ==
  IF args[1].t # "Account" THEN Throw("InvalidType")
  ELSE IF ~hasAccount(bc, args[1].v.hash) THEN Throw("KeyNotFound")
  ELSE IF Len(args) < 2 THEN Throw("TypeError")
  ELSE IF ~(canBuffer(args[2]) /\ isUInt256(asBuffer(args[2])))
  THEN Throw("InvalidType")
  ELSE Result(ctx,
              <<IntegerStackItem(
                  balanceOf(getAccount(bc, args[1].v.hash), asBuffer(args[2])))>>,
              <<>>, hp, bc)

\* variant: SetVotes does not look at the frozen flag
setVotesOfFrozen(ctx, address, votes, hp, bc) ==
  IF Len(votes) > MAX_VOTES THEN Throw("TooManyVotes")
  ELSE IF ~hasAccount(bc, address) THEN Throw("KeyNotFound")
  ELSE IF balanceOf(getAccount(bc, address), bc.settings.governingToken) = ZERO
          /\ Len(votes) > 0
  THEN Throw("NotEligibleVote")
  ELSE IF Not(checkWitness(ctx, address)) THEN Throw("BadWitnessCheck")
  ELSE Result(ctx, <<>>, <<>>, hp,
              withVotes(bc, getAccount(bc, address), votes))

\* Neo.Account.SetVotes once its arguments are decoded
setVotes(ctx, address, votes, hp, bc) ==
  IF Len(votes) > MAX_VOTES THEN Throw("TooManyVotes")
  ELSE IF ~hasAccount(bc, address) THEN Throw("KeyNotFound")
  ELSE IF getAccount(bc, address).isFrozen THEN Throw("AccountFrozen")
  ELSE IF balanceOf(getAccount(bc, address), bc.settings.governingToken) = ZERO
          /\ Len(votes) > 0
  THEN Throw("NotEligibleVote")
  ELSE IF Not(checkWitness(ctx, address)) THEN Throw("BadWitnessCheck")
  ELSE Result(ctx, <<>>, <<>>, hp,
              withVotes(bc, getAccount(bc, address), votes))

\* Neo.Account.SetVotes
AccountSetVotes(ctx, args, hp, bc) ==
  IF args[1].t # "Account" \/ ~isArray(args[2]) THEN Throw("InvalidType")
  ELSE IF ~areECPoints(hp[args[2].v]) THEN Throw("InvalidType")
  ELSE setVotes(ctx, args[1].v.hash, buffersOf(hp[args[2].v]), hp, bc)

\* Neo.Validator.Register
ValidatorRegister(ctx, args, hp, bc) ==
  IF ~(canBuffer(args[1]) /\ isECPoint(asBuffer(args[1])))
  THEN Throw("InvalidType")
  ELSE IF Not(checkWitnessPublicKey(ctx, asBuffer(args[1])))
  THEN Throw("BadWitnessCheck")
  ELSE Result(ctx, <<ValidatorStackItem([publicKey |-> asBuffer(args[1])])>>,
              <<>>, hp,
              [bc EXCEPT !.validator =
                 @ \cup {[publicKey |-> asBuffer(args[1])]}])

\* assertAssetType accepts the asset types; two of them cannot be created
AssetTypes == {0, 1, 8, 64, 96, 128, 144, 152}
ReservedAssetTypes == {0, 1}

\* the arguments of Neo.Asset.Create decode: asString, asBigInteger, asECPoint,
\* asUInt160
assetArguments(args) ==
  /\ canBuffer(args[2])
  /\ canBigInteger(args[3])
  /\ canBigInteger(args[4])
  /\ canBuffer(args[5]) /\ isECPoint(asBuffer(args[5]))
  /\ canBuffer(args[6]) /\ isUInt160(asBuffer(args[6]))
  /\ canBuffer(args[7]) /\ isUInt160(asBuffer(args[7]))

\* variant: the asset expires 2,000,000 blocks after the current one
newAssetExpiresEarly(transaction, args, bc) ==
  [hash |-> transaction.hash,
   type |-> toNumber(asBigInteger(args[1])),
   name |-> asBuffer(args[2]),
   amount |-> asBigInteger(args[3]),
   precision |-> toNumber(asBigInteger(args[4])),
   owner |-> asBuffer(args[5]),
   admin |-> asBuffer(args[6]),
   issuer |-> asBuffer(args[7]),
   expiration |-> bc.currentBlock.index + 2000000]

\* new Asset({ ... })
newAsset(transaction, args, bc) ==
  [hash |-> transaction.hash,
   type |-> toNumber(asBigInteger(args[1])),
   name |-> asBuffer(args[2]),
   amount |-> asBigInteger(args[3]),
   precision |-> toNumber(asBigInteger(args[4])),
   owner |-> asBuffer(args[5]),
   admin |-> asBuffer(args[6]),
   issuer |-> asBuffer(args[7]),
   expiration |-> bc.currentBlock.index + 1 + 2000000]

\* Neo.Asset.Create; container type 0 is a transaction
AssetCreate(ctx, args, hp, bc) ==
  IF ctx.init.scriptContainer.type # 0 THEN Throw("UnexpectedScriptContainer")
  ELSE IF ctx.init.scriptContainer.value.type # "Invocation"
  THEN Throw("UnexpectedScriptContainer")
  ELSE IF ~canBigInteger(args[1]) THEN Throw("InvalidType")
  ELSE IF toNumber(asBigInteger(args[1])) \notin AssetTypes
          \/ toNumber(asBigInteger(args[1])) \in ReservedAssetTypes
  THEN Throw("InvalidAssetType")
  ELSE IF ~assetArguments(args) THEN Throw("InvalidType")
  ELSE IF Not(checkWitnessPublicKey(ctx, asBuffer(args[5])))
  THEN Throw("BadWitnessCheck")
  ELSE Result(ctx,
              <<AssetStackItem(
                  newAsset(ctx.init.scriptContainer.value, args, bc))>>,
              <<>>, hp,
              [bc EXCEPT !.asset =
                 @ \cup {newAsset(ctx.init.scriptContainer.value, args, bc)}])

\* Neo.Runtime.Notify and Neo.Runtime.Log
emit(type, payload, ctx, hp, bc) ==
  Result([ctx EXCEPT !.actionIndex = ctx.actionIndex + 1], <<>>, <<>>, hp,
         [bc EXCEPT !.action =
            Append(@, [type |-> type, index |-> ctx.actionIndex,
                       scriptHash |-> ctx.scriptHash, payload |-> payload])])

SysCallInvoke(name, ctx, args, hp, bc) ==
  CASE name = "Neo.Runtime.Notify" ->
         IF ~isArray(args[1]) THEN Throw("InvalidType")
         ELSE emit("Notification", hp[args[1].v], ctx, hp, bc)
    [] name = "Neo.Runtime.Log" ->
         IF ~canBuffer(args[1]) THEN Throw("InvalidType")
         ELSE emit("Log", asBuffer(args[1]), ctx, hp, bc)
    [] name = "Neo.Blockchain.GetContract" ->
         IF ~(canBuffer(args[1]) /\ isUInt160(asBuffer(args[1])))
         THEN Throw("InvalidType")
         ELSE IF ~hasContract(bc, asBuffer(args[1])) THEN Throw("KeyNotFound")
         ELSE Result(ctx,
                     <<ContractStackItem(getContract(bc, asBuffer(args[1])))>>,
                     <<>>, hp, bc)
    [] name = "Neo.Storage.GetContext" ->
         Result(ctx, <<StorageContextStackItem(ctx.scriptHash)>>, <<>>, hp, bc)
    [] name = "Neo.Blockchain.GetAccount" ->
         BlockchainGetAccount(ctx, args, hp, bc)
    [] name = "Neo.Storage.Get" -> StorageGet(ctx, args, hp, bc)
    [] name = "Neo.Account.SetVotes" -> AccountSetVotes(ctx, args, hp, bc)
    [] name = "Neo.Account.GetBalance" -> AccountGetBalance(ctx, args, hp, bc)
    [] name = "Neo.Validator.Register" -> ValidatorRegister(ctx, args, hp, bc)
    [] name = "Neo.Asset.Create" -> AssetCreate(ctx, args, hp, bc)
    [] name = "Neo.Contract.Create" -> ContractCreate(ctx, args, hp, bc)
    [] name = "Neo.Contract.Migrate" -> ContractMigrate(ctx, args, hp, bc)
    [] name = "Neo.Contract.Destroy" -> ContractDestroy(ctx, args, hp, bc)
    [] name = "Neo.Storage.Put" -> StoragePut(ctx, args, hp, bc)
    [] name = "Neo.Storage.Delete" -> StorageDelete(ctx, args, hp, bc)
    [] name = "Neo.Contract.GetStorageContext" ->
         ContractGetStorageContext(ctx, args, hp, bc)
    [] name = "System.ExecutionEngine.GetExecutingScriptHash" ->
         Result(ctx, <<UInt160StackItem(ctx.scriptHash)>>, <<>>, hp, bc)
    [] name = "System.ExecutionEngine.GetCallingScriptHash" ->
         Result(ctx,
                <<IF ctx.callingScriptHash = <<>> THEN BufferStackItem(<<>>)
                  ELSE UInt160StackItem(ctx.callingScriptHash)>>,
                <<>>, hp, bc)
    [] name = "System.ExecutionEngine.GetEntryScriptHash" ->
         Result(ctx, <<UInt160StackItem(ctx.entryScriptHash)>>, <<>>, hp, bc)

\* variant: the target is counted from the byte after the offset
jumpInvokeFromOperand(name, ctx, args, hp, bc) ==
  IF ctx.pc + 2 > Len(ctx.code) THEN Throw("RangeError")
  ELSE LET newPC == ctx.pc + 2 + readInt16LE(ctx.code, ctx.pc)
       IN  IF newPC < 0 \/ newPC > Len(ctx.code) THEN Throw("CodeOverflow")
           ELSE IF name # "JMP" /\ ~canBoolean(args[1]) THEN Throw("InvalidType")
           ELSE Result([ctx EXCEPT !.pc =
                          IF name = "JMP" \/ (name = "JMPIF") = asBoolean(args[1])
                          THEN newPC ELSE ctx.pc + 2],
                       <<>>, <<>>, hp, bc)

\* variant: JMPIFNOT jumps on the same condition as JMPIF
jumpInvokeSameSense(name, ctx, args, hp, bc) ==
  IF ctx.pc + 2 > Len(ctx.code) THEN Throw("RangeError")
  ELSE LET newPC == ctx.pc + 2 + readInt16LE(ctx.code, ctx.pc) - 3
       IN  IF newPC < 0 \/ newPC > Len(ctx.code) THEN Throw("CodeOverflow")
           ELSE IF name # "JMP" /\ ~canBoolean(args[1]) THEN Throw("InvalidType")
           ELSE Result([ctx EXCEPT !.pc =
                          IF name = "JMP" \/ asBoolean(args[1])
                          THEN newPC ELSE ctx.pc + 2],
                       <<>>, <<>>, hp, bc)

\* the invoke of jump({ name, checkTrue })
jumpInvoke(name, ctx, args, hp, bc) ==
  IF ctx.pc + 2 > Len(ctx.code) THEN Throw("RangeError")
  ELSE LET offset == readInt16LE(ctx.code, ctx.pc)
           pc == ctx.pc + 2
           newPC == pc + offset - 3
       IN  IF newPC < 0 \/ newPC > Len(ctx.code) THEN Throw("CodeOverflow")
           ELSE IF name # "JMP" /\ ~canBoolean(args[1]) THEN Throw("InvalidType")
           ELSE LET shouldJump ==
                      CASE name = "JMP" -> TRUE
                        [] name = "JMPIF" -> asBoolean(args[1])
                        [] OTHER -> ~asBoolean(args[1])
                IN  Result([ctx EXCEPT !.pc = IF shouldJump THEN newPC ELSE pc],
                           <<>>, <<>>, hp, bc)

\* variant: the keys that follow a count are taken from the last to the first
checkMultisigInvokeBackward(ctx, args, hp, bc) ==
  LET first == args[1]
      index == IF isArray(first) THEN 1
               ELSE 1 + toNumber(asBigInteger(first))
      keyItems == IF isArray(first) THEN hp[first.v]
                  ELSE Reverse(SubSeq(args, 2, index))
      second == args[index + 1]
      sigItems == IF isArray(second) THEN hp[second.v]
                  ELSE SubSeq(args, index + 2, Len(args))
  IN  IF ~(allBuffers(keyItems) /\ allBuffers(sigItems))
      THEN Throw("InvalidType")
      ELSE LET publicKeys == buffersOf(keyItems)
               signatures == buffersOf(sigItems)
           IN  IF Len(publicKeys) = 0 \/ Len(signatures) = 0 \/
                  Len(signatures) > Len(publicKeys)
               THEN Throw("InvalidCheckMultisigArguments")
               ELSE Result(ctx,
                      <<BooleanStackItem(
                          checkMultisigLoop(publicKeys, signatures, 0, 0))>>,
                      <<>>, hp, bc)

\* the invoke of CHECKMULTISIG
checkMultisigInvoke(ctx, args, hp, bc) ==
  LET first == args[1]
      index == IF isArray(first) THEN 1
               ELSE 1 + toNumber(asBigInteger(first))
      keyItems == IF isArray(first) THEN hp[first.v]
                  ELSE SubSeq(args, 2, index)
      second == args[index + 1]
      sigItems == IF isArray(second) THEN hp[second.v]
                  ELSE SubSeq(args, index + 2, Len(args))
  IN  IF ~(allBuffers(keyItems) /\ allBuffers(sigItems))
      THEN Throw("InvalidType")
      ELSE LET publicKeys == buffersOf(keyItems)
               signatures == buffersOf(sigItems)
           IN  IF Len(publicKeys) = 0 \/ Len(signatures) = 0 \/
                  Len(signatures) > Len(publicKeys)
               THEN Throw("InvalidCheckMultisigArguments")
               ELSE Result(ctx,
                      <<BooleanStackItem(
                          checkMultisigLoop(publicKeys, signatures, 0, 0))>>,
                      <<>>, hp, bc)

\* variant: UNPACK walks the array from its first element
unpackForward(arr) == arr \o <<IntegerStackItem(Len(arr))>>

\* the results of UNPACK: the elements from the last to the first, then the length
unpackResults(arr) == Reverse(arr) \o <<IntegerStackItem(Len(arr))>>

\* the invoke of SETITEM
\* value[index] = newItem, c holding the item to store
storeItem(c, ctx, args, bc) ==
  IF c.err # "none" THEN Throw(c.err)
  ELSE IF ~canBigInteger(args[2]) \/ ~isArray(args[3])
  THEN Throw("InvalidType")
  ELSE IF toNumber(asBigInteger(args[2])) < 0 \/
          toNumber(asBigInteger(args[2])) >= Len(c.heap[args[3].v])
  THEN Throw("InvalidSetItemIndex")
  ELSE Result(ctx, <<>>, <<>>,
              [c.heap EXCEPT
                 ![args[3].v][toNumber(asBigInteger(args[2])) + 1] = c.item],
              bc)

setItemInvoke(ctx, args, hp, bc) ==
  storeItem(setItemValue(hp, args[1]), ctx, args, bc)

\* op.invoke({ context, args, argsAlt }) for every descriptor but the three calls
\* the length prefix of PUSHDATA1, 2 and 4
pushDataSize(numBytes, code, pc) ==
  IF numBytes = 1 THEN readUInt8(code, pc)
  ELSE IF numBytes = 2 THEN readUInt16LE(code, pc)
  ELSE readInt32LE(code, pc)

pushDataSized(numBytes, size, ctx, hp, bc) ==
  IF Len(ctx.code) < ctx.pc + numBytes + size - 1 THEN Throw("CodeOverflow")
  ELSE Result([ctx EXCEPT !.pc = ctx.pc + numBytes + size],
              <<BufferStackItem(sliceBetween(ctx.code, ctx.pc + numBytes,
                                             ctx.pc + numBytes + size))>>,
              <<>>, hp, bc)

pushDataInvoke(numBytes, ctx, hp, bc) ==
  IF ctx.pc + numBytes > Len(ctx.code) THEN Throw("RangeError")
  ELSE pushDataSized(numBytes, pushDataSize(numBytes, ctx.code, ctx.pc), ctx,
                     hp, bc)

\* what reading an array beyond its end, or an empty slot, gives
Undefined == [t |-> "undefined", v |-> 0]

\* stack[n] of the source (0-based)
itemAt(stack, n) == IF n < Len(stack) THEN stack[n + 1] ELSE Undefined

\* stack.slice(0, n).concat(stack.slice(n + 1))
removeAt(stack, n) ==
  SubSeq(stack, 1, IF n > Len(stack) THEN Len(stack) ELSE n) \o
  SubSeq(stack, n + 2, Len(stack))

\* the copy of stack after stack[n] = context.stack[0]; stack[0] =
\* context.stack[n]: an assignment beyond the end lengthens the array
swapped(stack, n) ==
  [k \in 1..(IF n + 1 > Len(stack) THEN n + 1 ELSE Len(stack)) |->
     IF k = 1 THEN itemAt(stack, n)
     ELSE IF k = n + 1 THEN itemAt(stack, 0)
     ELSE itemAt(stack, k - 1)]

\* stack.slice(0, n).concat([stack[0]]).concat(stack.slice(n))
tucked(stack, n) ==
  SubSeq(stack, 1, IF n > Len(stack) THEN Len(stack) ELSE n) \o
  <<itemAt(stack, 0)>> \o SubSeq(stack, n + 1, Len(stack))

\* XDROP, XSWAP, XTUCK, PICK and ROLL on the index n
indexedInvoke(name, n, ctx, hp, bc) ==
  CASE name = "XDROP" ->
         IF n < 0 THEN Throw("XDropNegative")
         ELSE Result([ctx EXCEPT !.stack = removeAt(@, n)], <<>>, <<>>, hp, bc)
    [] name = "XSWAP" ->
         IF n < 0 THEN Throw("XSwapNegative")
         ELSE Result([ctx EXCEPT !.stack = swapped(@, n)], <<>>, <<>>, hp, bc)
    [] name = "XTUCK" ->
         IF n <= 0 THEN Throw("XTuckNegative")
         ELSE Result([ctx EXCEPT !.stack = tucked(@, n)], <<>>, <<>>, hp, bc)
    [] name = "PICK" ->
         IF n < 0 THEN Throw("PickNegative")
         ELSE Result(ctx, <<itemAt(ctx.stack, n)>>, <<>>, hp, bc)
    [] name = "ROLL" ->
         IF n < 0 THEN Throw("RollNegative")
         ELSE Result([ctx EXCEPT !.stack = removeAt(@, n)],
                     <<itemAt(ctx.stack, n)>>, <<>>, hp, bc)

\* RIGHT: args[0] is the count, args[1] the value
rightInvoke(ctx, args, hp, bc) ==
  IF ~canBigInteger(args[1]) THEN Throw("InvalidType")
  ELSE IF toNumber(asBigInteger(args[1])) < 0 THEN Throw("RightNegative")
  ELSE IF ~canBuffer(args[2]) THEN Throw("InvalidType")
  ELSE IF Len(asBuffer(args[2])) < toNumber(asBigInteger(args[1]))
  THEN Throw("RightLength")
  ELSE Result(ctx,
              <<BufferStackItem(sliceFrom(asBuffer(args[2]),
                                          -toNumber(asBigInteger(args[1]))))>>,
              <<>>, hp, bc)

Invoke(op, ctx, args, argsAlt, hp, bc) ==
  CASE op.name = "PUSH0" ->
         Result(ctx, <<BufferStackItem(<<>>)>>, <<>>, hp, bc)
    [] op.name = "PUSHBYTES" ->
         Result([ctx EXCEPT !.pc = ctx.pc + op.arg],
                <<BufferStackItem(slice(ctx.code, ctx.pc, ctx.pc + op.arg))>>,
                <<>>, hp, bc)
    [] op.name \in {"PUSHDATA1", "PUSHDATA2", "PUSHDATA4"} ->
         pushDataInvoke(op.arg, ctx, hp, bc)
    [] op.name \in {"PUSHM1", "PUSH"} ->
         Result(ctx, <<IntegerStackItem(op.arg)>>, <<>>, hp, bc)
    [] op.name = "NOP" -> Result(ctx, <<>>, <<>>, hp, bc)
    [] op.name \in {"JMP", "JMPIF", "JMPIFNOT"} ->
         jumpInvoke(op.name, ctx, args, hp, bc)
    [] op.name = "RET" -> Result([ctx EXCEPT !.done = TRUE], <<>>, <<>>, hp, bc)
    [] op.name = "DUPFROMALTSTACK" ->
         Result(ctx, <<argsAlt[1]>>, <<argsAlt[1]>>, hp, bc)
    [] op.name = "TOALTSTACK" -> Result(ctx, <<>>, <<args[1]>>, hp, bc)
    [] op.name = "FROMALTSTACK" -> Result(ctx, <<argsAlt[1]>>, <<>>, hp, bc)
    [] op.name = "DEPTH" ->
         Result(ctx, <<IntegerStackItem(Len(ctx.stack))>>, <<>>, hp, bc)
    [] op.name = "DROP" -> Result(ctx, <<>>, <<>>, hp, bc)
    [] op.name = "DUP" -> Result(ctx, <<args[1], args[1]>>, <<>>, hp, bc)
    [] op.name = "NIP" -> Result(ctx, <<args[1]>>, <<>>, hp, bc)
    [] op.name = "OVER" ->
         Result(ctx, <<args[2], args[1], args[2]>>, <<>>, hp, bc)
    [] op.name = "ROT" ->
         Result(ctx, <<args[2], args[1], args[3]>>, <<>>, hp, bc)
    [] op.name = "SWAP" -> Result(ctx, <<args[1], args[2]>>, <<>>, hp, bc)
    [] op.name = "TUCK" ->
         Result(ctx, <<args[1], args[2], args[1]>>, <<>>, hp, bc)
    [] op.name = "CAT" ->
         IF ~(canBuffer(args[1]) /\ canBuffer(args[2])) THEN Throw("InvalidType")
         ELSE Result(ctx,
                     <<BufferStackItem(asBuffer(args[2]) \o asBuffer(args[1]))>>,
                     <<>>, hp, bc)
    [] op.name = "RIGHT" -> rightInvoke(ctx, args, hp, bc)
    [] op.name \in {"XDROP", "XSWAP", "XTUCK", "PICK", "ROLL"} ->
         IF ~canBigInteger(args[1]) THEN Throw("InvalidType")
         ELSE indexedInvoke(op.name, toNumber(asBigInteger(args[1])), ctx, hp,
                            bc)
    [] op.name = "CHECKSIG" ->
         IF ~(canBuffer(args[1]) /\ canBuffer(args[2])) THEN Throw("InvalidType")
         ELSE Result(ctx,
                     <<BooleanStackItem(
                         checkSig(asBuffer(args[1]), asBuffer(args[2])))>>,
                     <<>>, hp, bc)
    [] op.name = "CHECKMULTISIG" -> checkMultisigInvoke(ctx, args, hp, bc)
    [] op.name = "ARRAYSIZE" ->
         IF isArray(args[1])
         THEN Result(ctx, <<IntegerStackItem(Len(hp[args[1].v]))>>, <<>>, hp, bc)
         ELSE IF canBuffer(args[1])
         THEN Result(ctx, <<IntegerStackItem(Len(asBuffer(args[1])))>>, <<>>,
                     hp, bc)
         ELSE Throw("InvalidType")
    [] op.name = "PACK" ->
         Result(ctx, <<ArrayStackItem(Len(hp) + 1)>>, <<>>,
                Append(hp, SubSeq(args, 2, Len(args))), bc)
    [] op.name = "UNPACK" ->
         IF ~isArray(args[1]) THEN Throw("InvalidType")
         ELSE Result(ctx, unpackResults(hp[args[1].v]), <<>>, hp, bc)
    [] op.name = "PICKITEM" ->
         IF ~canBigInteger(args[1]) \/ ~isArray(args[2]) THEN Throw("InvalidType")
         ELSE LET index == toNumber(asBigInteger(args[1]))
                  value == hp[args[2].v]
              IN  IF index < 0 \/ index >= Len(value)
                  THEN Throw("InvalidPickItemIndex")
                  ELSE Result(ctx, <<value[index + 1]>>, <<>>, hp, bc)
    [] op.name = "SETITEM" -> setItemInvoke(ctx, args, hp, bc)
    [] op.name \in {"NEWARRAY", "NEWSTRUCT"} ->
         IF ~canBigInteger(args[1]) THEN Throw("InvalidType")
         ELSE LET n == rangeLength(toNumber(asBigInteger(args[1])))
                  r == Len(hp) + 1
              IN  Result(ctx,
                         <<IF op.name = "NEWARRAY" THEN ArrayStackItem(r)
                           ELSE StructStackItem(r)>>,
                         <<>>,
                         Append(hp, [k \in 1..n |-> BooleanStackItem(FALSE)]),
                         bc)
    [] op.name = "THROW" -> Throw("Throw")
    [] op.name = "THROWIFNOT" ->
         IF ~canBoolean(args[1]) THEN Throw("InvalidType")
         ELSE IF ~asBoolean(args[1]) THEN Throw("Throw")
         ELSE Result(ctx, <<>>, <<>>, hp, bc)
    [] OTHER -> SysCallInvoke(op.name, ctx, args, hp, bc)

----------------------------------------------------------------------------
(* The engine: executeScript and the checks and effects of one step *)

\* the initial context executeScript builds for `code`
executeScript(code, pushOnly, init, gasLeft, options) ==
  [code |-> code,
   init |-> init,
   pushOnly |-> pushOnly,
   scriptHash |-> hash160(code),
   callingScriptHash |-> options.scriptHash,
   entryScriptHash |->
     IF options.entryScriptHash = <<>> THEN hash160(code)
     ELSE options.entryScriptHash,
   pc |-> 0,
   depth |-> options.depth,
   stack |-> options.stack,
   stackAlt |-> options.stackAlt,
   done |-> FALSE,
   gasLeft |-> gasLeft,
   actionIndex |-> options.actionIndex,
   createdContracts |-> options.createdContracts]

\* the options of a top-level run; <<>> stands for an absent script hash
NoOptions ==
  [stack |-> <<>>, stackAlt |-> <<>>, depth |-> 1, actionIndex |-> 0,
   createdContracts |-> <<>>, scriptHash |-> <<>>, entryScriptHash |-> <<>>]

\* the combined stack size the step would leave, as its descriptor declares it
stackSize(op, ctx) ==
  Len(ctx.stack) + Len(ctx.stackAlt) + op.out + op.outAlt + op.modify +
  op.modifyAlt - op.in - op.inAlt

\* the per-step checks, in order; "none" when the step may run
checkOp(op, ctx) ==
  IF Len(ctx.stack) < op.in THEN "StackUnderflow"
  ELSE IF Len(ctx.stackAlt) < op.inAlt THEN "AltStackUnderflow"
  ELSE IF ctx.gasLeft < op.fee THEN "OutOfGas"
  ELSE IF ctx.depth + op.invocation > MAX_INVOCATION_STACK_SIZE
       THEN "InvocationStackOverflow"
  ELSE IF stackSize(op, ctx) > MAX_STACK_SIZE THEN "StackOverflow"
  ELSE IF op.array > MAX_ARRAY_SIZE THEN "ArrayTooLarge"
  ELSE IF op.item > MAX_ITEM_SIZE THEN "ItemTooLarge"
  ELSE "none"

\* decode, check, pay the fee and pop the arguments
prepareOp(op) ==
  IF op.err # "none" THEN [err |-> op.err, name |-> "?"]
  ELSE IF checkOp(op, op.context) # "none"
  THEN [err |-> checkOp(op, op.context), name |-> op.name]
  ELSE [err |-> "none",
        name |-> op.name,
        op |-> op,
        args |-> SubSeq(op.context.stack, 1, op.in),
        argsAlt |-> SubSeq(op.context.stackAlt, 1, op.inAlt),
        context |->
          [op.context EXCEPT
             !.stack = SubSeq(@, op.in + 1, Len(@)),
             !.stackAlt = SubSeq(@, op.inAlt + 1, Len(@)),
             !.gasLeft = @ - op.fee]]

prepare(ctx, hp) == prepareOp(lookupOp(ctx, hp))

\* push the results of invoke: the last result ends on top
pushResults(r) ==
  [r.context EXCEPT !.stack = Reverse(r.results) \o @,
                    !.stackAlt = Reverse(r.resultsAlt) \o @]

\* what the caller's invoke keeps of its context while the nested run executes
Frame(kind, ctx) ==
  [kind |-> kind, code |-> ctx.code, pc |-> ctx.pc, depth |-> ctx.depth,
   scriptHash |-> ctx.scriptHash, callingScriptHash |-> ctx.callingScriptHash]

\* variants: the nested run gets a unit of gas back / counts its actions from 0
callGasLeftRefund(ctx) == ctx.gasLeft + 1
callActionIndexReset(ctx) == ZERO

\* the gas budget and the action counter `call` hands to the nested run
callGasLeft(ctx) == ctx.gasLeft
callActionIndex(ctx) == ctx.actionIndex

\* the invoke of CALL up to engine.run: JMP in place of the operand, depth + 1
callRun(j, ctx) ==
  IF j.err # "none" THEN Throw(j.err)
  ELSE [err |-> "none", enter |-> "CALL",
        frame |-> Frame("CALL", ctx),
        context |-> [j.context EXCEPT !.depth = ctx.depth + 1]]

callEnter(ctx, hp, bc) == callRun(jumpInvoke("JMP", ctx, <<>>, hp, bc), ctx)

\* the invoke of call({ name, tailCall }) up to engine.executeScript
appCallEnter(name, ctx, hp, bc) ==
  LET hash == slice(ctx.code, ctx.pc, ctx.pc + UINT160_BUFFER_BYTES)
  IN  IF ~isUInt160(hash) THEN Throw("InvalidFormat")
      ELSE IF ~hasContract(bc, hash) THEN Throw("KeyNotFound")
      ELSE [err |-> "none", enter |-> name,
            frame |-> Frame(name, ctx),
            context |->
              executeScript(getContract(bc, hash).script, FALSE, ctx.init,
                callGasLeft(ctx),
                [stack |-> ctx.stack,
                 stackAlt |-> ctx.stackAlt,
                 depth |-> IF name = "TAILCALL" THEN ctx.depth
                           ELSE ctx.depth + 1,
                 actionIndex |-> callActionIndex(ctx),
                 createdContracts |-> ctx.createdContracts,
                 scriptHash |-> ctx.scriptHash,
                 entryScriptHash |-> ctx.entryScriptHash])]

\* a CALL that leaves the done flag of the finished frame as it is
callReturnStillDone(frame, resultContext) ==
  [resultContext EXCEPT !.pc = frame.pc + 2, !.depth = frame.depth]

\* the rest of the invoke of CALL, once engine.run has returned resultContext
callReturn(frame, resultContext) ==
  [resultContext EXCEPT !.pc = frame.pc + 2, !.done = FALSE,
                        !.depth = frame.depth]

\* a call whose caller goes on after a TAILCALL as it does after an APPCALL
appCallReturnResumes(frame, resultContext) ==
  [resultContext EXCEPT !.code = frame.code,
                        !.pc = frame.pc + UINT160_BUFFER_BYTES,
                        !.done = FALSE,
                        !.depth = frame.depth]

\* the rest of the invoke of call, once executeScript has returned resultContext
appCallReturn(frame, resultContext) ==
  [resultContext EXCEPT !.code = frame.code,
                        !.pc = frame.pc + UINT160_BUFFER_BYTES,
                        !.done = (frame.kind = "TAILCALL"),
                        !.depth = frame.depth]

\* one step of the run loop on a frame that is not done
\* the step's outcome once invoke has returned r
invoked(r, name) ==
  IF r.err # "none" THEN [err |-> r.err, name |-> name]
  ELSE [err |-> "none", name |-> name, enter |-> "none",
        context |-> pushResults(r), heap |-> r.heap,
        blockchain |-> r.blockchain]

\* the step after its checks: p is the prepared descriptor
stepPrepared(p, hp, bc) ==
  IF p.err # "none" THEN [err |-> p.err, name |-> p.name]
  ELSE IF p.name = "CALL"
  THEN [name |-> p.name] @@ callEnter(p.context, hp, bc)
  ELSE IF p.name \in {"APPCALL", "TAILCALL"}
  THEN [name |-> p.name] @@ appCallEnter(p.name, p.context, hp, bc)
  ELSE invoked(Invoke(p.op, p.context, p.args, p.argsAlt, hp, bc), p.name)

step(ctx, hp, bc) == stepPrepared(prepare(ctx, hp), hp, bc)

\* the run loop's test: the frame is finished
frameDone(ctx) == ctx.done \/ ctx.pc >= Len(ctx.code)

\* variant: the pending invoke catches e and goes on after the call
invokeCatches(frame, ctx, e) ==
  [err |-> "none",
   context |->
     [ctx EXCEPT !.code = frame.code,
                 !.pc = frame.pc + (IF frame.kind = "CALL" THEN 2
                                    ELSE UINT160_BUFFER_BYTES),
                 !.done = FALSE,
                 !.depth = frame.depth]]

\* the invoke of CALL, APPCALL or TAILCALL pending in `frame` when the nested run
\* it awaits throws e: the await is in no try block, so invoke throws e in turn
invokeRejects(frame, ctx, e) == Throw(e)

\* the pending invokes of fs, innermost last, that would not pass e on
catching(fs, ctx, e) ==
  {k \in 1..Len(fs) : invokeRejects(fs[k], ctx, e).err = "none"}

\* the run goes on in the frame of the pending invoke k, which caught e
resume(fs, ctx, e, k) ==
  [state |-> "NONE", frames |-> SubSeq(fs, 1, k - 1),
   context |-> invokeRejects(fs[k], ctx, e).context, error |-> "none"]

\* an exception e thrown by a step travels up the pending invokes fs, innermost
\* first; when none of them catches it the run ends in Fault
unwind(fs, ctx, e) ==
  IF catching(fs, ctx, e) = {}
  THEN [state |-> "FAULT", frames |-> <<>>, context |-> ctx, error |-> e]
  ELSE resume(fs, ctx, e,
              CHOOSE k \in catching(fs, ctx, e) :
                \A j \in catching(fs, ctx, e) : j <= k)

----------------------------------------------------------------------------
(* The state machine *)

Awaiting == pending.contract \/ pending.items # {}

\* the run loop is at the top of its loop: the run has not ended and no invoke
\* is waiting for the ledger
Running == state = "NONE" /\ ~Awaiting

Init ==
  /\ NoIterator /\ NoPeer /\ NoRequest
  /\ run \in Runs
  /\ context = executeScript(run.code, run.pushOnly, run.init, run.gasLeft,
                             [NoOptions EXCEPT !.stack = givenStack(run),
                                               !.depth = run.depth])
  /\ frames = <<>>
  /\ heap = givenHeap(run)
  /\ blockchain =
       [contract |-> {[script |-> Contracts[k], hasStorage |-> TRUE,
                       hash |-> UInt160Of(k)] : k \in Deployed},
        storageItem |-> StoredItems,
        account |-> Accounts,
        validator |-> {},
        asset |-> {},
        settings |-> [governingToken |-> UInt256Of(0)],
        currentBlock |-> [index |-> 7],
        action |-> <<>>]
  /\ state = "NONE"
  /\ error = "none"
  /\ lastOp = "none"
  /\ calls = <<>>
  /\ pending = NoOperations

\* the record of the system call d that step s has invoked in context ctx
invocation(d, ctx, s) ==
  [name |-> d.name,
   scriptHash |-> ctx.scriptHash,
   args |-> SubSeq(ctx.stack, 1, Opt(d, "in")),
   results |-> SubSeq(s.context.stack, 1, Opt(d, "out"))]

\* the effect of a step s that is not a call
Executed(s) ==
  /\ s.err = "none"
  /\ s.enter = "none"
  /\ Len(s.context.stack) + Len(s.context.stackAlt)
       <= MAX_STACK_SIZE + StackSlack
  /\ context' = s.context
  /\ heap' = s.heap
  /\ blockchain' = s.blockchain
  /\ lastOp' = s.name
  /\ calls' = IF s.name \in DOMAIN SYSCALLS
              THEN Append(calls, invocation(SYSCALLS[s.name], context, s))
              ELSE calls
  /\ pending' = IF s.name = "Neo.Contract.Destroy"
                THEN destroyOperations(context.stack, blockchain)
                ELSE NoOperations

\* the effect of a step s that starts a nested run
Entered(s, kinds) ==
  /\ s.err = "none"
  /\ s.enter \in kinds
  /\ context' = s.context
  /\ frames' = Append(frames, s.frame)
  /\ lastOp' = s.name

\* the exception of step s has travelled up the pending invokes and left u
Unwound(u, s) ==
  /\ state' = u.state
  /\ frames' = u.frames
  /\ context' = u.context
  /\ error' = u.error
  /\ lastOp' = s.name

\* the effect of a step s that throws
Thrown(s) ==
  /\ s.err # "none"
  /\ Unwound(unwind(frames, context, s.err), s)

\* an opcode or system call other than CALL, APPCALL and TAILCALL
ExecuteNext ==
  /\ Running
  /\ ~frameDone(context)
  /\ Executed(step(context, heap, blockchain))
  /\ UNCHANGED <<frames, state, error, run, clientVars>>

\* CALL: the nested run starts at the jump target
Call ==
  /\ Running
  /\ ~frameDone(context)
  /\ Entered(step(context, heap, blockchain), {"CALL"})
  /\ UNCHANGED <<heap, blockchain, state, error, run, calls,
               pending, clientVars>>

\* APPCALL and TAILCALL: the nested run starts at the contract's first byte
AppCallOrTailCall ==
  /\ Running
  /\ ~frameDone(context)
  /\ Entered(step(context, heap, blockchain), {"APPCALL", "TAILCALL"})
  /\ UNCHANGED <<heap, blockchain, state, error, run, calls,
               pending, clientVars>>

\* blockchain.contract.delete({ hash }) of Neo.Contract.Destroy completes
DeleteContract ==
  /\ state = "NONE"
  /\ pending.contract
  /\ blockchain' = [blockchain EXCEPT
                      !.contract = {c \in @ : c.hash # pending.hash}]
  /\ pending' = [pending EXCEPT !.contract = FALSE]
  /\ UNCHANGED <<context, frames, heap, state, error, lastOp, run,
               calls, clientVars>>

\* one blockchain.storageItem.delete({ hash, key }) of Neo.Contract.Destroy
\* completes; concatMap starts them one after the other, in the order of getAll
DeleteStorageItem ==
  /\ state = "NONE"
  /\ \E key \in pending.items :
       /\ blockchain' = withoutItem(blockchain, pending.hash, key)
       /\ pending' = [pending EXCEPT !.items = @ \ {key}]
  /\ UNCHANGED <<context, frames, heap, state, error, lastOp, run,
               calls, clientVars>>

\* the run started by CALL ends; CALL's invoke returns to the caller's loop
CallReturn ==
  /\ Running
  /\ frameDone(context)
  /\ frames # <<>>
  /\ frames[Len(frames)].kind = "CALL"
  /\ context' = callReturn(frames[Len(frames)], context)
  /\ frames' = SubSeq(frames, 1, Len(frames) - 1)
  /\ lastOp' = "return"
  /\ UNCHANGED <<heap, blockchain, state, error, run, calls,
               pending, clientVars>>

\* the run started by APPCALL or TAILCALL ends
AppCallReturn ==
  /\ Running
  /\ frameDone(context)
  /\ frames # <<>>
  /\ frames[Len(frames)].kind \in {"APPCALL", "TAILCALL"}
  /\ context' = appCallReturn(frames[Len(frames)], context)
  /\ frames' = SubSeq(frames, 1, Len(frames) - 1)
  /\ lastOp' = "return"
  /\ UNCHANGED <<heap, blockchain, state, error, run, calls,
               pending, clientVars>>

\* the outermost run ends
Halt ==
  /\ Running
  /\ frameDone(context)
  /\ frames = <<>>
  /\ state' = "HALT"
  /\ UNCHANGED <<context, frames, heap, blockchain, error, lastOp, run, calls,
               pending, clientVars>>

\* a step throws
Fault ==
  /\ Running
  /\ ~frameDone(context)
  /\ Thrown(step(context, heap, blockchain))
  /\ UNCHANGED <<heap, blockchain, run, calls, pending, clientVars>>

Next ==
  \/ ExecuteNext
  \/ Call
  \/ AppCallOrTailCall
  \/ CallReturn
  \/ AppCallReturn
  \/ Halt
  \/ Fault
  \/ DeleteContract
  \/ DeleteStorageItem

Spec == Init /\ [][Next]_vars

\* the runs whose termination is checked: the jumps, the loop of jumps, the
\* CALL cycle below the depth limit, nested calls, a fault in a nested call and
\* a contract destroyed along with its items
LiveScripts ==
  {JumpCycle, CallLoop, Nops, CallTree, ThrowInAppCall, DestroysTwoItems} \cup
  {JumpEntries[k] : k \in 1..Len(JumpEntries)}
LiveRuns ==
  {r \in Runs : /\ r.code \in LiveScripts
                /\ r.stack = 0
                /\ r.code = CallLoop => r.depth > 1}

\* the run loop and the awaited ledger operations keep going until the run
\* ends: a run that has not ended takes another step
LiveSpec ==
  /\ Init /\ run \in LiveRuns
  /\ [][Next]_vars
  /\ ([]<><<Next>>_vars \/ <>(state # "NONE"))

----------------------------------------------------------------------------
(* Properties *)

\* the combined size of the two stacks
Size == Len(context.stack) + Len(context.stackAlt)

\* the run loop is about to decode an opcode, and the opcode byte it will read
\* (-1 for the undefined byte at a negative pc)
Stepping == Running /\ ~frameDone(context)
NextOp == IF context.pc < 0 THEN -1 ELSE context.code[context.pc + 1]

\* the step just taken executed an opcode of the current frame without throwing
Executes == Stepping /\ state' = "NONE" /\ frames' = frames

\* the contracts that exist before the run
PreExisting == {UInt160Of(k) : k \in Deployed}

\* C1: after every step that does not fault, at any nesting depth, the two
\* stacks together hold at most MAX_STACK_SIZE items (a faulting step leaves the
\* stacks as they were, so the bound is stated on every state).
C1_StackBound == Size <= MAX_STACK_SIZE

\* C1, the DUP half: DUP on MAX_STACK_SIZE items has faulted with StackOverflow
\* and left the stacks as they were
C1_DupFaults ==
  /\ state = "FAULT"
  /\ error = "StackOverflow"
  /\ lastOp = "DUP"
  /\ Size = MAX_STACK_SIZE

\* what C2 asks of a single step
DepthStep ==
  /\ (Stepping /\ NextOp \in {CALL, APPCALL} /\
      context.depth = MAX_INVOCATION_STACK_SIZE
        => state' = "FAULT" /\ error' = "InvocationStackOverflow")
  /\ (state' = "NONE" /\ Len(frames') = Len(frames) + 1
        => context'.depth = IF lastOp' = "TAILCALL" THEN context.depth
                            ELSE context.depth + 1)
  /\ (state' = "NONE" /\ Len(frames') = Len(frames) - 1
        => /\ context'.depth = frames[Len(frames)].depth
           /\ context.depth =
                IF frames[Len(frames)].kind = "TAILCALL" THEN context'.depth
                ELSE context'.depth + 1)

\* C2: depth never exceeds MAX_INVOCATION_STACK_SIZE; CALL and APPCALL at that
\* depth fault with InvocationStackOverflow; CALL and APPCALL run the callee one
\* level deeper and the caller gets its own depth back when the callee returns;
\* TAILCALL runs the callee at the caller's depth.
C2_DepthBounded ==
  /\ [](context.depth <= MAX_INVOCATION_STACK_SIZE)
  /\ [][DepthStep]_vars

\* C2: APPCALL at the deepest level has faulted
C2_DeepestCallFaults ==
  /\ state = "FAULT"
  /\ error = "InvocationStackOverflow"
  /\ lastOp = "APPCALL"
  /\ context.depth = MAX_INVOCATION_STACK_SIZE

\* C3: when Neo.Contract.GetStorageContext has succeeded, the contract of the
\* storage context it pushed did not exist before the run and was recorded as
\* created by the script that is executing.
C3_OnlyCreatorGetsContext ==
  (lastOp = "Neo.Contract.GetStorageContext" /\ error = "none")
    => /\ context.stack[1].v \notin PreExisting
       /\ context.createdContracts[context.stack[1].v] = hash160(context.code)

\* C3: GetStorageContext has succeeded on a contract that a script created in
\* this run
C3_CreatorGetsContext ==
  /\ lastOp = "Neo.Contract.GetStorageContext"
  /\ error = "none"
  /\ context.stack[1] = StorageContextStackItem(hash160(NewScript))
  /\ run.code = CreatorUserScript

\* what C4 asks of a single step, given the outcome s of the opcode it runs
FaultStep(s) ==
  s.err # "none" => state' = "FAULT" /\ frames' = <<>> /\ error' = s.err

\* C4: a step that throws, at any depth, ends the whole run in Fault with that
\* error and no pending frame, and nothing executes once the run has faulted.
C4_FaultEndsRun ==
  [][/\ state # "FAULT"
     /\ (Stepping => FaultStep(step(context, heap, blockchain)))]_vars

\* C4: THROW two calls deep has ended the run; what follows the two APPCALLs in
\* the enclosing frames has pushed nothing
C4_DeepFault ==
  /\ state = "FAULT"
  /\ error = "Throw"
  /\ run.code = ThrowDeep
  /\ context.depth = run.depth + 2
  /\ context.stack = <<IntegerStackItem(1)>>

\* C5: gasLeft never increases and is never negative; the callee of CALL,
\* APPCALL and TAILCALL starts with the gas the caller has left and the caller
\* resumes with the gas the callee has left.
C5_GasMonotone ==
  /\ [](context.gasLeft >= 0)
  /\ [][/\ context'.gasLeft <= context.gasLeft
        /\ (state' = "NONE" /\ Len(frames') # Len(frames)
              => context'.gasLeft = context.gasLeft)]_vars

\* C5: the outermost frame has resumed after a nested run with its gas budget
C5_ResumedWithGas ==
  /\ lastOp = "return"
  /\ frames = <<>>
  /\ run.code = CallTree
  /\ context.gasLeft = run.gasLeft
  /\ Len(blockchain.action) > 1

C7_ActionIndices ==
  \A i \in 1..Len(blockchain.action) : blockchain.action[i].index = i - 1

\* C7: a run has emitted from the entry script and from the runs it entered
\* through CALL, APPCALL and TAILCALL, eight actions in all
C7_TreeEmitted ==
  /\ state = "HALT"
  /\ run.code = CallTree
  /\ Len(blockchain.action) = 8
  /\ blockchain.action[2].payload = <<6>>
  /\ blockchain.action[8].payload = <<2>>

\* C8: SETITEM of a struct stores a clone, so writing 7 into the original
\* afterwards leaves dest[0][0] = false; SETITEM of an array stores the array
\* itself, so dest[0][0] = 7.
C8_SetItemCloneOrAlias ==
  state = "HALT" =>
    /\ (run.code = SetItemScript(NEWSTRUCT)
          => context.stack = <<BooleanStackItem(FALSE)>>)
    /\ (run.code = SetItemScript(NEWARRAY)
          => context.stack = <<IntegerStackItem(7)>>)

\* C8: the struct was stored, then written to: the original holds 7 and the
\* clone a third element list
C8_StructStored ==
  /\ state = "HALT"
  /\ run.code = SetItemScript(NEWSTRUCT)
  /\ Len(heap) = 3
  /\ heap[1] = <<IntegerStackItem(7)>>
  /\ heap[2] = <<StructStackItem(3)>>

\* the outcome of the step after s1
thenStep(s1, bc) ==
  IF s1.err # "none" THEN s1 ELSE step(s1.context, s1.heap, bc)

\* r leaves the stacks as they are now, the count on top being the Integer n
sameStack(r) ==
  /\ r.err = "none"
  /\ r.context.stack =
       <<IntegerStackItem(asBigInteger(context.stack[1]))>> \o
       Tail(context.stack)
  /\ r.context.stackAlt = context.stackAlt

\* C9: with a count n >= 0 on top of at least n items, PACK followed by UNPACK
\* leaves the n items in their order with n on top and what lies below
\* untouched.
C9_PackUnpack ==
  (/\ Stepping
   /\ NextOp = PACK
   /\ context.pc + 2 <= Len(context.code)
   /\ context.code[context.pc + 2] = UNPACK
   /\ context.stack # <<>>
   /\ canBigInteger(context.stack[1])
   /\ asBigInteger(context.stack[1]) >= 0
   /\ Len(context.stack) >= asBigInteger(context.stack[1]) + 1)
    => sameStack(thenStep(step(context, heap, blockchain), blockchain))

\* C9: MaxPack items given with a one-byte Buffer count have been packed and
\* unpacked
C9_RoundTripDone ==
  /\ lastOp = "UNPACK"
  /\ error = "none"
  /\ run.code = PackBufferScript(MaxPack)
  /\ Len(context.stack) = MaxPack + 2
  /\ context.stack[1] = IntegerStackItem(MaxPack)
  /\ context.stack[2] = IntegerStackItem(MaxPack)
  /\ context.stack[MaxPack + 2] = IntegerStackItem(5)

\* the runs of CHECKSIG on (pk, sig) followed by CHECKMULTISIG on ([pk], [sig])
CheckSigRun ==
  \E i \in 1..Len(PublicKeys), j \in 1..Len(Signatures) :
    run.code = CheckSigScript(PublicKeys[i], Signatures[j])

\* C10: CHECKSIG on (pk, sig) and CHECKMULTISIG on ([pk], [sig]) push the same
\* Boolean, also when verification throws.
C10_CheckSigAgrees ==
  (state = "HALT" /\ CheckSigRun)
    => /\ Len(context.stack) = 2
       /\ context.stack[1].t = "Boolean"
       /\ context.stack[1] = context.stack[2]

\* C10: both have verified a signature
C10_BothVerified ==
  /\ state = "HALT"
  /\ run.code = CheckSigScript(PublicKeys[1], Signatures[1])
  /\ context.stack = <<BooleanStackItem(TRUE), BooleanStackItem(TRUE)>>

\* C11: in a run with pushOnly = true, an opcode byte above PUSH16 other than RET
\* faults with a push-only violation instead of executing.
C11_PushOnlyEnforced ==
  [][(Stepping /\ context.pushOnly /\ NextOp > PUSH16 /\ NextOp # RET)
       => (state' = "FAULT" /\ error' = "PushOnly")]_vars

\* C11: NOP has executed in a run with pushOnly = true
C11_NopInPushOnlyRun ==
  /\ run.pushOnly
  /\ context.pushOnly
  /\ lastOp = "NOP"
  /\ error = "none"

\* the name the SYSCALL at ctx.pc carries, and where the name ends
sysCallLength(ctx) == ctx.code[ctx.pc + 2]
sysCallEnd(ctx) == ctx.pc + 2 + sysCallLength(ctx)
sysCallName(ctx) == toASCII(slice(ctx.code, ctx.pc + 2, sysCallEnd(ctx)))
AtSysCall ==
  /\ Stepping
  /\ NextOp = SYSCALL
  /\ context.pc + 2 <= Len(context.code)
  /\ sysCallEnd(context) <= Len(context.code)

\* ctx with the name of its SYSCALL written as `name`
renamed(ctx, name) ==
  [ctx EXCEPT !.code =
     slice(ctx.code, 0, ctx.pc + 1) \o <<Len(ASCII[name])>> \o ASCII[name] \o
     slice(ctx.code, sysCallEnd(ctx), Len(ctx.code))]

\* two descriptors that differ in their context at most
sameDescriptor(a, b) ==
  /\ a.err = "none"
  /\ b.err = "none"
  /\ [a EXCEPT !.context = b.context] = b

\* two outcomes of a step with the same effect on the stacks, the actions, the
\* ledger and what is left of the code
sameEffect(a, b) ==
  /\ a.err = b.err
  /\ a.name = b.name
  /\ a.err = "none" =>
       /\ [a.context EXCEPT !.code = <<>>, !.pc = 0] =
            [b.context EXCEPT !.code = <<>>, !.pc = 0]
       /\ slice(a.context.code, a.context.pc, Len(a.context.code)) =
            slice(b.context.code, b.context.pc, Len(b.context.code))
       /\ a.heap = b.heap
       /\ a.blockchain = b.blockchain

AliasStep(ctx) ==
  /\ sameDescriptor(lookupOp(ctx, heap),
                    lookupOp(renamed(ctx, SYSCALL_ALIASES[sysCallName(ctx)]),
                             heap))
  /\ sameEffect(step(ctx, heap, blockchain),
                step(renamed(ctx, SYSCALL_ALIASES[sysCallName(ctx)]), heap,
                     blockchain))

\* C12: every alias names an existing system call; a SYSCALL that names an
\* alias has the descriptor and the effect of the SYSCALL that names the
\* canonical name; a name in neither table faults with UnknownSysCall.
C12_AliasesResolve ==
  [][/\ \A a \in DOMAIN SYSCALL_ALIASES :
          SYSCALL_ALIASES[a] \in DOMAIN SYSCALLS
     /\ (AtSysCall /\ sysCallName(context) \in DOMAIN SYSCALL_ALIASES)
          => AliasStep(context)
     /\ (AtSysCall /\
         sysCallName(context) \notin DOMAIN SYSCALL_ALIASES \cup DOMAIN SYSCALLS)
          => (state' = "FAULT" /\ error' = "UnknownSysCall")]_vars

\* C12: the three aliases have logged, notified and created the contract, and
\* the name without an alias has faulted
C12_AliasesRan ==
  /\ run.code = AliasCalls
  /\ Len(blockchain.action) = 2
  /\ hasContract(blockchain, hash160(NewScript))
  /\ state = "FAULT"
  /\ error = "UnknownSysCall"

\* call c of the history writes or deletes the storage item (hash, key)
putsOrDeletes(c, hash, key) ==
  /\ c.name \in {"Neo.Storage.Put", "Neo.Storage.Delete"}
  /\ c.args[1].v = hash
  /\ asBuffer(c.args[2]) = key

\* call c of the history destroys the contract `hash`
destroys(c, hash) ==
  /\ c.name = "Neo.Contract.Destroy"
  /\ asBuffer(c.args[1]) = hash

\* call c of the history migrates to the contract `hash`
migrates(c, hash) ==
  /\ c.name = "Neo.Contract.Migrate"
  /\ c.results[1].v.hash = hash

\* the calls before the n-th that decide what the n-th, a Get, returns
PutsBefore(n) ==
  {i \in 1..(n - 1) :
     putsOrDeletes(calls[i], calls[n].args[1].v, asBuffer(calls[n].args[2]))}
WritesBefore(n) ==
  PutsBefore(n) \cup
  {i \in 1..(n - 1) : destroys(calls[i], calls[n].args[1].v)} \cup
  {i \in 1..(n - 1) : migrates(calls[i], calls[n].args[1].v)}

\* the value a Put left, the empty buffer after a Delete or a Destroy
valueLeft(c) ==
  IF c.name = "Neo.Storage.Put" THEN asBuffer(c.args[3]) ELSE <<>>

Last(S) == CHOOSE i \in S : \A j \in S : j <= i

\* the n-th call, a Get, returns what the last of the calls in S left, or with S
\* empty and no item stored before the run, the empty buffer
GetReturns(n, S) ==
  IF S # {}
  THEN calls[Last(S)].name = "Neo.Contract.Migrate"
         \/ calls[n].results = <<BufferStackItem(valueLeft(calls[Last(S)]))>>
  ELSE hasStorageItem([storageItem |-> StoredItems], calls[n].args[1].v,
                      asBuffer(calls[n].args[2]))
         \/ calls[n].results = <<BufferStackItem(<<>>)>>

Gets == {n \in 1..Len(calls) : calls[n].name = "Neo.Storage.Get"}

C14_JumpSixLeavesNine ==
  /\ run.code = JumpIf(6) => state # "FAULT"
  /\ (run.code = JumpIf(6) /\ state = "HALT")
       => context.stack = <<IntegerStackItem(9)>>

\* C14 (amended): with offset +5 the jump lands on PUSH9 and the script halts
\* with [Integer(9)]; with offset +6 it lands on the last RET and the script
\* halts with an empty stack. Both consume the pushed 1 and skip PUSH7 RET.
C14_JumpFiveLeavesNine ==
  /\ run.code \in {JumpIf(5), JumpIf(6)} => state # "FAULT"
  /\ (run.code = JumpIf(5) /\ state = "HALT")
       => context.stack = <<IntegerStackItem(9)>>
  /\ (run.code = JumpIf(6) /\ state = "HALT") => context.stack = <<>>
  /\ (run.code \in {JumpIf(5), JumpIf(6)} /\ lastOp = "JMPIF")
       => context.stack = <<>> /\ context.pc = 1 + readInt16LE(run.code, 2)

\* C14: the script with offset +5 has halted after PUSH9
C14_HaltedWithNine ==
  /\ run.code = JumpIf(5)
  /\ state = "HALT"
  /\ lastOp = "RET"
  /\ context.stack = <<IntegerStackItem(9)>>

\* the pending APPCALL and TAILCALL invokes, and the script that executed the
\* innermost of them: the caller of the contract that is running
AppCalls == {i \in 1..Len(frames) : frames[i].kind \in {"APPCALL", "TAILCALL"}}
CallerHash ==
  IF AppCalls = {} THEN BufferStackItem(<<>>)
  ELSE UInt160StackItem(hash160(frames[Last(AppCalls)].code))

\* step s has pushed `item`
Pushes(s, item) == s.err = "none" /\ s.context.stack[1] = item

\* C15: GetCallingScriptHash returns the hash of the script that executed the
\* APPCALL or TAILCALL that entered the running contract, and an empty buffer
\* at top level; GetEntryScriptHash returns at every depth the hash of the
\* script passed to executeScript.
C15_CallingAndEntryHash ==
  /\ (AtSysCall /\ sysCallName(context) =
                     "System.ExecutionEngine.GetCallingScriptHash")
       => Pushes(step(context, heap, blockchain), CallerHash)
  /\ (AtSysCall /\ sysCallName(context) =
                     "System.ExecutionEngine.GetEntryScriptHash")
       => Pushes(step(context, heap, blockchain),
                 UInt160StackItem(hash160(run.code)))

\* C15: two calls deep, in the first contract the run calls, the calling and
\* the entry hash have been pushed as claimed
C15_HashesInNestedCall ==
  /\ run.code = AsksHashes
  /\ Len(frames) = 2
  /\ lastOp = "System.ExecutionEngine.GetEntryScriptHash"
  /\ context.stack[1] = UInt160StackItem(hash160(AsksHashes))
  /\ context.stack[2] = UInt160StackItem(hash160(HashesViaScript))

\* the run started by an APPCALL is about to return to its caller
AppCallReturning ==
  /\ Running
  /\ frameDone(context)
  /\ frames # <<>>
  /\ frames[Len(frames)].kind = "APPCALL"

\* C16: when the contract entered by APPCALL returns, the caller continues with
\* the scriptHash and callingScriptHash it had when it called;
\* GetExecutingScriptHash and Neo.Storage.GetContext yield the hash of the
\* script that executes them, before and after it has called another contract.
C16_CallerKeepsHashes ==
  [][/\ AppCallReturning =>
          /\ context'.scriptHash = frames[Len(frames)].scriptHash
          /\ context'.callingScriptHash = frames[Len(frames)].callingScriptHash
     /\ (AtSysCall /\ sysCallName(context) =
                       "System.ExecutionEngine.GetExecutingScriptHash")
          => Pushes(step(context, heap, blockchain),
                    UInt160StackItem(hash160(context.code)))
     /\ (AtSysCall /\ sysCallName(context) = "Neo.Storage.GetContext")
          => Pushes(step(context, heap, blockchain),
                    StorageContextStackItem(hash160(context.code)))]_vars

\* C16: before it calls, OwnHashScript has got its own hash and its own
\* storage context
C16_OwnHashBeforeCall ==
  /\ run.code = AsksOwnHash
  /\ Len(frames) = 1
  /\ Len(calls) = 2
  /\ lastOp = "Neo.Storage.GetContext"
  /\ context.stack =
       <<StorageContextStackItem(hash160(OwnHashScript)),
         UInt160StackItem(hash160(OwnHashScript))>>

\* the step taken has invoked Neo.Contract.Create or Neo.Contract.Migrate
Creates ==
  /\ Len(calls') = Len(calls) + 1
  /\ lastOp' \in {"Neo.Contract.Create", "Neo.Contract.Migrate"}

\* the hash of the script the call is given
createdHash == hash160(asBuffer(context.stack[1]))

\* C17: Create and Migrate leave createdContracts and the contracts as they are
\* when the contract exists, and record createdContracts[hash] = scriptHash
\* when they create it, with or without storage.
C17_RecordedIffCreated ==
  [][Creates =>
       IF hasContract(blockchain, createdHash)
       THEN /\ context'.createdContracts = context.createdContracts
            /\ blockchain'.contract = blockchain.contract
       ELSE /\ hasContract(blockchain', createdHash)
            /\ createdHash \in DOMAIN context'.createdContracts
            /\ context'.createdContracts[createdHash] = context.scriptHash]_vars

\* C17: Create has created a contract without storage and recorded it
C17_NewWithoutStorageRecorded ==
  /\ run.code = CreateNoStorage
  /\ lastOp = "Neo.Contract.Create"
  /\ hasContract(blockchain, hash160(NewScript))
  /\ ~getContract(blockchain, hash160(NewScript)).hasStorage
  /\ context.createdContracts =
       (hash160(NewScript) :> hash160(CreateNoStorage))

\* the system calls that check a witness, and the script hash each requires
WitnessCalls ==
  {"Neo.Account.SetVotes", "Neo.Validator.Register", "Neo.Asset.Create"}
requiredHash(name, stack) ==
  CASE name = "Neo.Account.SetVotes" -> stack[1].v.hash
    [] name = "Neo.Validator.Register" ->
         getVerificationScriptHash(asBuffer(stack[1]))
    [] name = "Neo.Asset.Create" ->
         getVerificationScriptHash(asBuffer(stack[5]))

\* the next step is one of these calls and the hash it requires is not among
\* the container's script hashes for verifying
Unwitnessed ==
  /\ AtSysCall
  /\ canonicalName(sysCallName(context)) \in WitnessCalls
  /\ requiredHash(canonicalName(sysCallName(context)), context.stack) \notin
       context.init.scriptContainer.scriptHashesForVerifying

\* C18: SetVotes, Validator.Register and Asset.Create fault with the bad
\* witness error and write nothing to the ledger when the script hash they
\* require is not among the container's script hashes for verifying.
C18_BadWitnessFaults ==
  [][Unwitnessed =>
       /\ state' = "FAULT"
       /\ error' = "BadWitnessCheck"
       /\ blockchain' = blockchain]_vars

\* C18: with the witness in the container the three calls have written: the
\* votes, the validator, the asset
C18_WitnessedCallWrites ==
  /\ run.init = Signed
  /\ state = "HALT"
  /\ \/ /\ run.code = SetsVotes
        /\ getAccount(blockchain, VoterHash).votes = <<ECPointOf(1)>>
     \/ /\ run.code = Registers
        /\ blockchain.validator = {[publicKey |-> ECPointOf(1)]}
     \/ /\ run.code = CreatesAsset
        /\ \E a \in blockchain.asset : a.owner = ECPointOf(1)

\* the run started by the opcode kind is about to return to its caller
Returning(kind) ==
  /\ Running
  /\ frameDone(context)
  /\ frames # <<>>
  /\ frames[Len(frames)].kind = kind

\* the opcode whose operand the frame's pc points at
callerOp(frame) == frame.code[frame.pc]

\* the step is a return to a caller or the end of the outermost run
NoOpcode == lastOp' = "return" \/ state' = "HALT"

\* the calling frame continues in its own code after the operand of length n
Resumed(frame, n) ==
  /\ context'.code = frame.code
  /\ context'.pc = frame.pc + n
  /\ context'.depth = frame.depth
  /\ frames' = SubSeq(frames, 1, Len(frames) - 1)

\* C19: when the contract called by APPCALL completes, the caller continues at
\* the byte after the 20-byte hash, in its own code, with done cleared and its
\* own depth; when the contract called by TAILCALL completes, the caller's
\* frame is done and none of its remaining opcodes executes.
C19_AppCallResumesTailCallEnds ==
  [][/\ Returning("APPCALL") =>
          /\ callerOp(frames[Len(frames)]) = APPCALL
          /\ Resumed(frames[Len(frames)], UINT160_BUFFER_BYTES)
          /\ ~context'.done
     /\ Returning("TAILCALL") =>
          /\ callerOp(frames[Len(frames)]) = TAILCALL
          /\ Resumed(frames[Len(frames)], UINT160_BUFFER_BYTES)
          /\ context'.done
     /\ (Running /\ context.done) => NoOpcode]_vars

\* C19: the contract called by the TAILCALL of CallTreeMiddle has returned, the
\* frame is done with Log(5) still ahead of it, after the two APPCALLs before
\* it returned and the opcodes behind them ran
C19_TailCallLeftRest ==
  /\ run.code = CallTree
  /\ lastOp = "return"
  /\ context.code = CallTree
  /\ context.done
  /\ context.pc = Len(Log(1)) + 3 + Len(CallTreeMiddle) - Len(Log(5))
  /\ Len(blockchain.action) = 8

\* C20: when the frame started by CALL finishes, by RET or at the end of the
\* code, the caller continues at the byte after CALL's 2-byte offset with done
\* cleared and the depth it had before the CALL; the stacks, gasLeft and
\* actionIndex are as the finished frame left them.
C20_CallResumes ==
  [][Returning("CALL") =>
       /\ callerOp(frames[Len(frames)]) = CALL
       /\ Resumed(frames[Len(frames)], 2)
       /\ ~context'.done
       /\ context'.stack = context.stack
       /\ context'.stackAlt = context.stackAlt
       /\ context'.gasLeft = context.gasLeft
       /\ context'.actionIndex = context.actionIndex]_vars

\* C20: the CALL of SubCallScript ran its Notify to the end of the code and
\* the caller is at the NOP behind the offset
C20_ReturnedBehindOffset ==
  /\ context.code = SubCallScript
  /\ lastOp = "return"
  /\ context.pc = Len(Log(3)) + 3
  /\ ~context.done
  /\ context.actionIndex > 0
  /\ context.depth = frames[Len(frames)].depth + 1

\* the next opcode is a jump that passes the checks of the step, whose offset
\* is in the code and, for the conditional forms, whose condition is on the stack
AtJump ==
  /\ Stepping
  /\ prepare(context, heap).err = "none"
  /\ NextOp \in {JMP, JMPIF, JMPIFNOT}
  /\ context.pc + 3 <= Len(context.code)
  /\ NextOp # JMP => context.stack # <<>> /\ canBoolean(context.stack[1])

\* the address of the jump opcode plus its offset
jumpTarget == context.pc + readInt16LE(context.code, context.pc + 1)

\* the jump is taken
jumpTaken ==
  \/ NextOp = JMP
  \/ NextOp = JMPIF /\ asBoolean(context.stack[1])
  \/ NextOp = JMPIFNOT /\ ~asBoolean(context.stack[1])

\* C21: a taken JMP, JMPIF or JMPIFNOT continues at the address of the jump
\* opcode plus its signed 16-bit offset, an untaken one at the byte after the
\* offset; JMPIF is taken iff the popped item is true, JMPIFNOT iff it is
\* false, and each pops exactly that item; a target below 0 or above the length
\* of the code faults with CodeOverflow.
C21_JumpTargets ==
  [][AtJump =>
       IF jumpTarget < 0 \/ jumpTarget > Len(context.code)
       THEN state' = "FAULT" /\ error' = "CodeOverflow"
       ELSE /\ state' = "NONE"
            /\ context'.pc = IF jumpTaken THEN jumpTarget ELSE context.pc + 3
            /\ context'.stack = IF NextOp = JMP THEN context.stack
                                ELSE Tail(context.stack)
            /\ context'.stackAlt = context.stackAlt]_vars

\* C21: JMPIFNOT on a false item has jumped over PUSH7 RET to PUSH9
C21_JumpedOnFalse ==
  /\ run.code = JumpScript(PUSH0, JMPIFNOT, 5)
  /\ state = "HALT"
  /\ context.stack = <<IntegerStackItem(9)>>

\* C22: for every opcode and system call descriptor, invoke pushes `out` items
\* on the main stack and `outAlt` items on the alt stack: over a step the
\* combined stack size changes by out + outAlt + modify + modifyAlt - in -
\* inAlt, the quantity the stack-size check is computed from.
C22_StackChangeAsDeclared ==
  [][Executes => Size' = stackSize(lookupOp(context, heap), context)]_vars

\* C22: OVER, which declares two arguments and no result, has left three items
\* where there were two
C22_OverGrewStack ==
  /\ run.code = OverLoop
  /\ run.stack = 0
  /\ lastOp = "OVER"
  /\ state = "NONE"
  /\ Len(context.stack) = 3

\* the next step is Neo.Contract.Migrate and it does not throw
Migrating ==
  /\ AtSysCall
  /\ canonicalName(sysCallName(context)) = "Neo.Contract.Migrate"
  /\ state' = "NONE"

\* the storage items of the contract `hash`
itemsOf(bc, hash) == {i \in bc.storageItem : i.hash = hash}

\* the items of `from` under the hash `to`
copiesOf(bc, from, to) ==
  {[hash |-> to, key |-> i.key, value |-> i.value] : i \in itemsOf(bc, from)}

\* what Migrate may write when it returns `contract`
migrateWrites(contract) ==
  IF contract.hasStorage /\ ~hasContract(blockchain, contract.hash)
  THEN copiesOf(blockchain, context.scriptHash, contract.hash)
  ELSE {}

\* C23: when Neo.Contract.Migrate newly creates a contract that has storage,
\* afterwards every storage item (ctx.scriptHash, k, v) has a copy
\* (newHash, k, v), the items under ctx.scriptHash are unchanged and no other
\* item is added; when the contract already existed or has no storage, Migrate
\* writes no storage item.
C23_MigrateCopiesItems ==
  [][Migrating =>
       /\ blockchain'.storageItem =
            blockchain.storageItem \cup migrateWrites(context'.stack[1].v)
       /\ itemsOf(blockchain', context.scriptHash) =
            itemsOf(blockchain, context.scriptHash)]_vars

\* C23: the contract that wrote two items has migrated to NewScript with
\* storage, and NewScript has the two items
C23_TwoItemsCopied ==
  /\ run.code = MigratesToNew
  /\ state = "HALT"
  /\ itemsOf(blockchain, hash160(NewScript)) =
       {[hash |-> hash160(NewScript), key |-> <<1>>, value |-> <<5>>],
        [hash |-> hash160(NewScript), key |-> <<2>>, value |-> <<6>>]}
  /\ Cardinality(itemsOf(blockchain, hash160(MigratorOf(NewScript, PUSH1)))) = 2

\* the ledger without the contract `hash` and without its storage items
others(bc, hash) ==
  [bc EXCEPT !.contract = {c \in @ : c.hash # hash},
             !.storageItem = {i \in @ : i.hash # hash}]

\* the next step is Neo.Contract.Destroy of a hash and it does not throw
Destroying ==
  /\ AtSysCall
  /\ canonicalName(sysCallName(context)) = "Neo.Contract.Destroy"
  /\ state' = "NONE"

\* the last operation Destroy awaits completes
Destroyed == Awaiting /\ ~Awaiting'

\* C24: when Neo.Contract.Destroy(hash) has completed for an existing contract,
\* the contract is absent and, if it had storage, no storage item of that hash
\* remains, in whatever order the delete of the contract and the deletes of the
\* items complete; contracts and items of other hashes are unchanged; for a
\* hash without contract nothing changes.
C24_DestroyRemovesAll ==
  [][/\ Destroying =>
          /\ others(blockchain', asBuffer(context.stack[1])) =
               others(blockchain, asBuffer(context.stack[1]))
          /\ ~hasContract(blockchain, asBuffer(context.stack[1]))
               => blockchain' = blockchain /\ ~Awaiting'
          /\ hasContract(blockchain, asBuffer(context.stack[1])) => Awaiting'
     /\ Awaiting =>
          /\ others(blockchain', pending.hash) = others(blockchain, pending.hash)
          /\ ~pending.hasStorage =>
               itemsOf(blockchain', pending.hash) =
                 itemsOf(blockchain, pending.hash)
          /\ state' = "NONE"
          /\ context' = context
     /\ Destroyed =>
          /\ ~hasContract(blockchain', pending.hash)
          /\ pending.hasStorage => itemsOf(blockchain', pending.hash) = {}]_vars

\* C24: Destroy of the contract that wrote two items has completed and the run
\* has gone on: the contract and its items are gone, the item and the contract
\* of another hash are still there
C24_DestroyedAfterItems ==
  /\ run.code = DestroysTwoItems
  /\ lastOp = "NOP"
  /\ ~hasContract(blockchain, UInt160Of(20))
  /\ blockchain.storageItem = StoredItems
  /\ hasContract(blockchain, UInt160Of(12))

\* the next step is Neo.Account.SetVotes on an account item of an account of
\* the ledger and an array of public keys
AtSetVotes ==
  /\ AtSysCall
  /\ canonicalName(sysCallName(context)) = "Neo.Account.SetVotes"
  /\ Len(context.stack) >= 2
  /\ context.stack[1].t = "Account"
  /\ isArray(context.stack[2])
  /\ areECPoints(heap[context.stack[2].v])
  /\ hasAccount(blockchain, context.stack[1].v.hash)

\* the errors the claim names for the vote list and the account
voteErrors(votes, account) ==
  {e \in {"TooManyVotes", "AccountFrozen", "NotEligibleVote"} :
     \/ e = "TooManyVotes" /\ Len(votes) > MAX_VOTES
     \/ e = "AccountFrozen" /\ account.isFrozen
     \/ e = "NotEligibleVote" /\ Len(votes) > 0 /\
          balanceOf(account, blockchain.settings.governingToken) = ZERO}

\* the step faults with one of the errors and leaves the accounts as they were
FaultsWith(errors) ==
  errors # {} =>
    /\ state' = "FAULT"
    /\ error' \in errors
    /\ blockchain'.account = blockchain.account

\* C25: Neo.Account.SetVotes faults and neither updates nor deletes the account
\* when the vote list has more than MAX_VOTES entries (TooManyVotes), when the
\* account is frozen (AccountFrozen), or when the account's balance of the
\* governing token is zero and the vote list is not empty (NotEligibleVote).
C25_SetVotesRefuses ==
  [][AtSetVotes =>
       FaultsWith(voteErrors(heap[context.stack[2].v],
                             getAccount(blockchain, context.stack[1].v.hash)))]_vars

\* C25: a list of MAX_VOTES + 1 votes for the voter's account was refused
C25_TooManyVotesRefused ==
  /\ run.code = SetsGivenVotes(VoterHash)
  /\ run.votes = MAX_VOTES + 1
  /\ state = "FAULT"
  /\ error = "TooManyVotes"
  /\ getAccount(blockchain, VoterHash).votes = <<>>

\* the next step is Neo.Asset.Create with its seven arguments on the stack
AtAssetCreate ==
  /\ AtSysCall
  /\ canonicalName(sysCallName(context)) = "Neo.Asset.Create"
  /\ Len(context.stack) >= 7
  /\ canBigInteger(context.stack[1])

\* the script container is an invocation transaction
InInvocation ==
  /\ context.init.scriptContainer.type = 0
  /\ context.init.scriptContainer.value.type = "Invocation"

\* the asset type asked for is GoverningToken or UtilityToken
ReservedTypeAsked ==
  toNumber(asBigInteger(context.stack[1])) \in ReservedAssetTypes

\* the step adds exactly one asset, with the hash of the transaction and the
\* expiration the claim states
OneAssetAdded ==
  \E a \in blockchain'.asset :
    /\ a \notin blockchain.asset
    /\ blockchain'.asset = blockchain.asset \cup {a}
    /\ a.hash = context.init.scriptContainer.value.hash
    /\ a.expiration = blockchain.currentBlock.index + 1 + 2000000

\* C26: Neo.Asset.Create faults and adds no asset unless the script container is
\* a transaction of type Invocation and the asset type asked for is neither
\* GoverningToken nor UtilityToken; when it succeeds the asset added has the
\* hash of the containing transaction and expiration = current height + 1 +
\* 2,000,000.
C26_AssetCreateGuards ==
  [][AtAssetCreate =>
       /\ (~InInvocation \/ ReservedTypeAsked) =>
             state' = "FAULT" /\ blockchain'.asset = blockchain.asset
       /\ state' = "NONE" => OneAssetAdded]_vars

\* C26: an asset of type Token was created in an invocation transaction
C26_TokenCreated ==
  /\ run.code = CreatesAssetOf(96)
  /\ run.init = Signed
  /\ state = "HALT"
  /\ \E a \in blockchain.asset :
       a.hash = <<7>> /\ a.type = 96 /\ a.expiration = 2000008

\* the next step is Neo.Account.GetBalance on an account item of an account of
\* the ledger and a 32-byte asset id
AtGetBalance ==
  /\ AtSysCall
  /\ canonicalName(sysCallName(context)) = "Neo.Account.GetBalance"
  /\ Len(context.stack) >= 2
  /\ context.stack[1].t = "Account"
  /\ hasAccount(blockchain, context.stack[1].v.hash)
  /\ canBuffer(context.stack[2])
  /\ isUInt256(asBuffer(context.stack[2]))

\* C27: Neo.Account.GetBalance takes an account item and an asset id from the
\* stack and pushes the account's balance of that asset, 0 when the account
\* holds none of it; for an account of the ledger and a 32-byte asset id it
\* does not fault.
C27_GetBalancePushesBalance ==
  [][AtGetBalance =>
       /\ state' = "NONE"
       /\ context'.stack =
            <<IntegerStackItem(
                balanceOf(getAccount(blockchain, context.stack[1].v.hash),
                          asBuffer(context.stack[2])))>> \o
            SubSeq(context.stack, 3, Len(context.stack))]_vars

\* C27: GetBalance of the governing token for the voter, who holds one, has
\* faulted with a TypeError, the asset id still on the stack
C27_GetBalanceFaulted ==
  /\ run.code = AsksBalance(UInt256Of(0))
  /\ state = "FAULT"
  /\ error = "TypeError"
  /\ lastOp = "Neo.Account.GetBalance"

\* a group of CHECKMULTISIG whose first item is stack[k]: its items, and the
\* position of its last item
groupItems(stack, hp, k) ==
  IF isArray(stack[k]) THEN hp[stack[k].v]
  ELSE SubSeq(stack, k + 1, k + toNumber(asBigInteger(stack[k])))
groupEnd(stack, k) ==
  IF isArray(stack[k]) THEN k ELSE k + toNumber(asBigInteger(stack[k]))

\* the public keys and the signatures on the stack, and the stack below them
keyItemsGiven == groupItems(context.stack, heap, 1)
sigItemsGiven ==
  groupItems(context.stack, heap, groupEnd(context.stack, 1) + 1)
belowGroups ==
  SubSeq(context.stack,
         groupEnd(context.stack, groupEnd(context.stack, 1) + 1) + 1,
         Len(context.stack))

\* the next step is CHECKMULTISIG on two groups of buffers, m signatures and n
\* keys with 1 <= m <= n
AtCheckMultisig ==
  /\ Stepping
  /\ NextOp = CHECKMULTISIG
  /\ prepare(context, heap).err = "none"
  /\ allBuffers(keyItemsGiven) /\ allBuffers(sigItemsGiven)
  /\ 1 <= Len(sigItemsGiven)
  /\ Len(sigItemsGiven) <= Len(keyItemsGiven)

\* the keys in front of the first key whose verification raises an exception
beforeException(keys) ==
  SubSeq(keys, 1,
         IF \A j \in 1..Len(keys) : isPublicKey(keys[j]) THEN Len(keys)
         ELSE (CHOOSE j \in 1..Len(keys) :
                 /\ ~isPublicKey(keys[j])
                 /\ \A k \in 1..(j - 1) : isPublicKey(keys[k])) - 1)

\* every signature is verified by a key of its own, the keys in the order of
\* the signatures
Matched(keys, sigs) ==
  \E f \in [1..Len(sigs) -> 1..Len(keys)] :
    /\ \A a, b \in 1..Len(sigs) : a < b => f[a] < f[b]
    /\ \A i \in 1..Len(sigs) : verify(sigs[i], keys[f[i]]) = "true"

\* C28: for n public keys and m signatures with 1 <= m <= n, CHECKMULTISIG
\* pushes true iff every signature is verified by a key of its own, the keys
\* taken in increasing order, and false otherwise; an exception raised while
\* verifying with a key gives false and no fault: that key and the keys behind
\* it verify nothing.
C28_MultisigMatchesInOrder ==
  [][AtCheckMultisig =>
       /\ state' = "NONE"
       /\ context'.stack[1] =
            BooleanStackItem(
              Matched(beforeException(buffersOf(keyItemsGiven)),
                      buffersOf(sigItemsGiven)))]_vars

\* C28: two signatures were verified by the first two of three keys, the third
\* of which is malformed and was not tried
C28_TwoOfThreeVerified ==
  /\ run.code = MultisigScript(<<PublicKeys[1], PublicKeys[2], PublicKeys[3]>>,
                               <<Signatures[1], Signatures[2]>>, TRUE, TRUE)
  /\ state = "HALT"
  /\ context.stack = <<BooleanStackItem(TRUE), IntegerStackItem(9)>>

\* the result of CHECKMULTISIG when both groups are given as arrays
arraysResult(keyItems, sigItems) ==
  checkMultisigInvoke(context,
                      <<ArrayStackItem(Len(heap) + 1),
                        ArrayStackItem(Len(heap) + 2)>>,
                      heap \o <<keyItems, sigItems>>, blockchain).results

\* C29: for the same public keys and the same signatures CHECKMULTISIG gives
\* the same Boolean whether each group is one Array item or a count followed by
\* that many items, and in each of the four cases it takes exactly the items of
\* the two groups from the stack and pushes one Boolean.
C29_EncodingsAgree ==
  [][AtCheckMultisig =>
       /\ state' = "NONE"
       /\ context'.stack =
            arraysResult(keyItemsGiven, sigItemsGiven) \o belowGroups]_vars

\* C29: keys given by count and signatures given by count: the second of two
\* keys has verified the one signature, the item below the groups is left
C29_CountedGroupsVerified ==
  /\ run.code = MultisigScript(<<PublicKeys[1], PublicKeys[2]>>,
                               <<Signatures[2]>>, FALSE, FALSE)
  /\ state = "HALT"
  /\ lastOp = "CHECKMULTISIG"
  /\ context.stack = <<BooleanStackItem(TRUE), IntegerStackItem(9)>>

\* the next step is PACK with a count on top of the stack
AtPack ==
  /\ Stepping
  /\ NextOp = PACK
  /\ context.stack # <<>>
  /\ canBigInteger(context.stack[1])

packCount == toNumber(asBigInteger(context.stack[1]))

\* C30: PACK faults with InvalidPackCount for every negative count, -1
\* included, and then pops nothing and pushes no array; for a count n >= 0 it
\* pops the count and n items and pushes one Array of those n items.
C30_PackCounts ==
  [][AtPack =>
       IF packCount < 0
       THEN /\ state' = "FAULT"
            /\ error' = "InvalidPackCount"
            /\ context'.stack = context.stack
       ELSE prepare(context, heap).err = "none" =>
              /\ state' = "NONE"
              /\ context'.stack =
                   <<ArrayStackItem(Len(heap) + 1)>> \o
                   SubSeq(context.stack, packCount + 2, Len(context.stack))
              /\ heap'[Len(heap) + 1] =
                   SubSeq(context.stack, 2, packCount + 1)]_vars

\* C30: PACK with the count -1 has not faulted: it has left the count where it
\* was and pushed an empty array on top of it
C30_MinusOnePacked ==
  /\ run.code = PacksMinusOne
  /\ state = "HALT"
  /\ lastOp = "PACK"
  /\ context.stack =
       <<ArrayStackItem(1), IntegerStackItem(-1), IntegerStackItem(5)>>
  /\ heap = << <<>> >>

\* the next step is NEWARRAY, NEWSTRUCT or PACK with a count on top of the
\* stack and, for PACK, that many items below it
AtCounted ==
  /\ Stepping
  /\ NextOp \in {NEWARRAY, NEWSTRUCT, PACK}
  /\ context.stack # <<>>
  /\ canBigInteger(context.stack[1])
  /\ NextOp = PACK => Len(context.stack) > toNumber(asBigInteger(context.stack[1]))

\* the next step is CAT on two items that convert to buffers
AtCat ==
  /\ Stepping
  /\ NextOp = CAT
  /\ Len(context.stack) >= 2
  /\ canBuffer(context.stack[1])
  /\ canBuffer(context.stack[2])

\* the collections and buffers the step has created stay within the limits
WithinLimits ==
  /\ \A r \in (Len(heap) + 1)..Len(heap') : Len(heap'[r]) <= MAX_ARRAY_SIZE
  /\ \A k \in 1..Len(context'.stack) :
       context'.stack[k].t = "Buffer" => Len(context'.stack[k].v) <= MAX_ITEM_SIZE

\* C31: NEWARRAY, NEWSTRUCT and PACK fault with ArrayTooLarge when the length
\* asked for exceeds MAX_ARRAY_SIZE, CAT faults with ItemTooLarge when the
\* concatenation exceeds MAX_ITEM_SIZE, and no step leaves a new Array or Struct
\* of more than MAX_ARRAY_SIZE elements or a Buffer of more than MAX_ITEM_SIZE
\* bytes on the stack.
C31_LimitsEnforced ==
  [][/\ (AtCounted /\ toNumber(asBigInteger(context.stack[1])) > MAX_ARRAY_SIZE
          => state' = "FAULT" /\ error' = "ArrayTooLarge")
     /\ (AtCat /\ Len(asBuffer(context.stack[1])) +
                   Len(asBuffer(context.stack[2])) > MAX_ITEM_SIZE
          => state' = "FAULT" /\ error' = "ItemTooLarge")
     /\ (Executes => WithinLimits)]_vars

\* C31: NEWARRAY with the count MAX_ARRAY_SIZE + 1 has not faulted: the array
\* it has pushed has MAX_ARRAY_SIZE + 1 elements
C31_ArrayBeyondLimit ==
  /\ run.code = Counted(MAX_ARRAY_SIZE + 1, NEWARRAY)
  /\ state = "HALT"
  /\ lastOp = "NEWARRAY"
  /\ context.stack = <<ArrayStackItem(1)>>
  /\ Len(heap[1]) = MAX_ARRAY_SIZE + 1

\* the next step is RIGHT with a count on top of a buffer
AtRight ==
  /\ Stepping
  /\ NextOp = RIGHT
  /\ Len(context.stack) >= 2
  /\ canBigInteger(context.stack[1])
  /\ canBuffer(context.stack[2])

rightCount == toNumber(asBigInteger(context.stack[1]))
rightValue == asBuffer(context.stack[2])

\* C32: RIGHT with the count c on the buffer b pushes the last c bytes of b
\* when 0 <= c <= |b| (the empty buffer for c = 0), faults with RightLength
\* when c > |b| and with RightNegative when c < 0.
C32_RightTakesLast ==
  [][AtRight =>
       IF rightCount < 0
       THEN state' = "FAULT" /\ error' = "RightNegative"
       ELSE IF rightCount > Len(rightValue)
       THEN state' = "FAULT" /\ error' = "RightLength"
       ELSE /\ state' = "NONE"
            /\ context'.stack =
                 <<BufferStackItem(SubSeq(rightValue,
                                          Len(rightValue) - rightCount + 1,
                                          Len(rightValue)))>> \o
                 SubSeq(context.stack, 3, Len(context.stack))]_vars

\* C32: RIGHT with the count 0 on a buffer of three bytes has pushed the whole
\* buffer
C32_RightZeroKeptAll ==
  /\ run.code = Rights(<<1, 2, 3>>, PUSH0)
  /\ state = "HALT"
  /\ lastOp = "RIGHT"
  /\ context.stack = <<BufferStackItem(<<1, 2, 3>>)>>

\* the next step is PUSHBYTES1..75 or PUSHDATA1/2/4 and passes the checks of
\* the step
AtPushData ==
  /\ Stepping
  /\ NextOp \in 1..PUSHDATA4
  /\ prepare(context, heap).err = "none"

\* the bytes of the length prefix and the offset of the byte that follows it
prefixBytes ==
  CASE NextOp = PUSHDATA1 -> 1
    [] NextOp = PUSHDATA2 -> 2
    [] NextOp = PUSHDATA4 -> 4
    [] OTHER -> 0
dataStart == context.pc + 1 + prefixBytes

\* the length the opcode or its prefix declares; -1 when the prefix is cut short
\* or negative
declaredLength ==
  IF dataStart > Len(context.code) THEN -1
  ELSE CASE NextOp = PUSHDATA1 -> context.code[context.pc + 2]
         [] NextOp = PUSHDATA2 ->
              context.code[context.pc + 2] + 256 * context.code[context.pc + 3]
         [] NextOp = PUSHDATA4 ->
              IF context.code[context.pc + 5] >= 128 THEN -1
              ELSE context.code[context.pc + 2] +
                   256 * context.code[context.pc + 3] +
                   65536 * context.code[context.pc + 4] +
                   16777216 * context.code[context.pc + 5]
         [] OTHER -> NextOp

\* C33: PUSHBYTES1..75 and PUSHDATA1/2/4 either push a buffer of exactly the
\* declared length, copied from the bytes after the opcode and its prefix, and
\* leave pc at the byte after that data, or fault with CodeOverflow when the
\* script is too short or the length is negative.
C33_PushesWholeData ==
  [][AtPushData =>
       IF declaredLength >= 0 /\ dataStart + declaredLength <= Len(context.code)
       THEN /\ state' = "NONE"
            /\ context'.pc = dataStart + declaredLength
            /\ context'.stack =
                 <<BufferStackItem(SubSeq(context.code, dataStart + 1,
                                          dataStart + declaredLength))>> \o
                 context.stack
       ELSE state' = "FAULT" /\ error' = "CodeOverflow"]_vars

\* C33: PUSHBYTES3 followed by two bytes has pushed a buffer of two bytes and
\* left pc beyond the end of the script
C33_TruncatedPush ==
  /\ run.code = PushData(0, 3, 2)
  /\ state = "HALT"
  /\ lastOp = "PUSHBYTES"
  /\ context.stack = <<BufferStackItem(<<11, 12>>)>>
  /\ context.pc = Len(context.code) + 1

\* the next step is NEWARRAY or NEWSTRUCT with a number on top of the stack
AtNew ==
  /\ Stepping
  /\ NextOp \in {NEWARRAY, NEWSTRUCT}
  /\ context.stack # <<>>
  /\ canBigInteger(context.stack[1])
  /\ prepare(context, heap).err = "none"

newLength == toNumber(asBigInteger(context.stack[1]))

\* the collection the step has pushed in place of its operand has n elements,
\* each Boolean(false)
NewCollection(n) ==
  /\ state' = "NONE"
  /\ context'.stack =
       <<IF NextOp = NEWARRAY THEN ArrayStackItem(Len(heap) + 1)
         ELSE StructStackItem(Len(heap) + 1)>> \o Tail(context.stack)
  /\ heap' = Append(heap, [k \in 1..n |-> BooleanStackItem(FALSE)])

\* C34: NEWARRAY n and NEWSTRUCT n push a collection of exactly n elements,
\* each Boolean(false), for every n >= 0, and fault for n < 0.
C34_NewHasOperandLength ==
  [][AtNew =>
       IF newLength < 0 THEN state' = "FAULT" ELSE NewCollection(newLength)]_vars

\* C34: NEWARRAY with the operand -2 has not faulted: it has pushed an array
\* of two elements
C34_NegativeLengthArray ==
  /\ run.code = Counted(-2, NEWARRAY)
  /\ state = "HALT"
  /\ lastOp = "NEWARRAY"
  /\ context.stack = <<ArrayStackItem(1)>>
  /\ heap = << <<BooleanStackItem(FALSE), BooleanStackItem(FALSE)>> >>

\* the next step is PICK, ROLL, XSWAP, XTUCK or XDROP with an index on top of
\* the stack
AtIndexed ==
  /\ Stepping
  /\ NextOp \in IndexedOps
  /\ context.stack # <<>>
  /\ canBigInteger(context.stack[1])
  /\ prepare(context, heap).err = "none"

\* every slot of the stack holds a stack item
Defined(stack) == \A k \in 1..Len(stack) : stack[k].t # "undefined"

\* C35: after a step that does not fault every slot of the two stacks holds a
\* defined stack item, and PICK, ROLL, XSWAP, XTUCK and XDROP fault when their
\* index is not below the number of items under the operand.
C35_NoHoles ==
  [][/\ (AtIndexed /\ toNumber(asBigInteger(context.stack[1])) >=
                         Len(context.stack) - 1
          => state' = "FAULT")
     /\ (Executes => Defined(context'.stack) /\ Defined(context'.stackAlt))]_vars

\* C35: PICK 3 over one item has not faulted: it has pushed an undefined slot
C35_PickedBeyondStack ==
  /\ run.code = Indexed(1, Push(3), PICK_)
  /\ state = "HALT"
  /\ lastOp = "PICK"
  /\ context.stack = <<Undefined, IntegerStackItem(7)>>

\* the context executeScript has built for the run
StartContext ==
  executeScript(run.code, run.pushOnly, run.init, run.gasLeft,
                [NoOptions EXCEPT !.stack = givenStack(run),
                                  !.depth = run.depth])

\* the run is where executeScript has started it: the same context (pc, stacks
\* and gas included), no pending call, the same arrays, and no system call made
AtStart ==
  /\ state = "NONE"
  /\ context = StartContext
  /\ frames = <<>>
  /\ heap = givenHeap(run)
  /\ calls = <<>>
  /\ ~Awaiting

\* C36: every run started with a finite gas budget eventually reaches done or
\* faults, so no step of a run brings it back to the state it has started in
\* (the engine is deterministic: from there it would repeat the same steps
\* forever).
C36_NeverBackAtStart ==
  [][Executes =>
       ~(/\ context' = StartContext
         /\ frames' = <<>>
         /\ heap' = givenHeap(run)
         /\ calls' = <<>>
         /\ pending' = NoOperations)]_vars

\* C36, as a property of whole runs: every run eventually ends, in HALT or in
\* FAULT
C36_RunsEnd == <>(state # "NONE")

\* C36: the loop PUSH1, DROP, JMP -2 is back where it has started, with an
\* empty stack and the gas it was given
C36_LoopedForFree ==
  /\ run.code = JumpCycle
  /\ run.gasLeft = MaxGas
  /\ lastOp = "JMP"
  /\ AtStart

----------------------------------------------------------------------------
(* AsyncBlockIterator (packages/neo-blockchain-client)                     *)
(*                                                                         *)
(* A block is represented by its index.  A nullable number is the empty    *)
(* sequence (null, undefined) or the sequence of the number.  JavaScript   *)
(* runs one callback at a time: each action below is one callback, from    *)
(* its start to the next await or to its end, and next() may be called     *)
(* between any two of them.                                                *)

QUEUE_SIZE == 1000
BATCH_SIZE == 50

\* the node has at most MaxBlockCount blocks when the iteration is narrow
MaxBlockCount == 4
\* next() is called at most MaxExtraCalls times more than there are blocks
MaxExtraCalls == 2
\* at most MaxErrors client calls fail with an error other than UnknownBlockError
MaxErrors == 1

Null == <<>>
Some(n) == <<n>>
Min(x, y) == IF x < y THEN x ELSE y

\* the promise a next() call returned: pending, resolved with an
\* IteratorResult, or rejected
Pending == [state |-> "pending"]
Value(block) == [state |-> "resolved", done |-> FALSE, value |-> block]
Done == [state |-> "resolved", done |-> TRUE]
Rejected(reason) == [state |-> "rejected", reason |-> reason]

NoFetch ==
  [pc |-> "idle", index |-> 0, offsets |-> <<>>, block |-> "none",
   count |-> Null, error |-> "none", unhandled |-> "none", failed |-> 0]

\* new AsyncBlockIterator({ client, filter }); the filter is kept for reference
AsyncBlockIterator(filter) ==
  [_items |-> <<>>,
   _resolvers |-> <<>>,
   __done |-> FALSE,
   _currentIndex |-> IF filter.indexStart = Null THEN 0 ELSE filter.indexStart[1],
   _fetching |-> FALSE,
   _startHeight |-> Null,
   _indexStop |-> filter.indexStop,
   filter |-> filter]

\* The operators below work on a record a of the iterator, the fetch in
\* progress, the promises handed out and the exception being thrown, if any.

\* what the promise of a next() call is settled with when it receives item
settled(item) ==
  IF item.type = "error" THEN Rejected(item.error) ELSE Value(item.value)

\* variant: an item that no resolver waits for goes to the front of the queue
_pushFirst(a, item) ==
  IF a.thrown # "none" THEN a
  ELSE IF a.iterator.__done
  THEN [a EXCEPT !.thrown = "AsyncBlockIterator already ended"]
  ELSE IF Len(a.iterator._resolvers) > 0
  THEN [a EXCEPT !.promises[Head(a.iterator._resolvers)] = settled(item),
                 !.iterator._resolvers = Tail(@)]
  ELSE [a EXCEPT !.iterator._items = <<item>> \o @]

\* _push(item)
_push(a, item) ==
  IF a.thrown # "none" THEN a
  ELSE IF a.iterator.__done
  THEN [a EXCEPT !.thrown = "AsyncBlockIterator already ended"]
  ELSE IF Len(a.iterator._resolvers) > 0
  THEN [a EXCEPT !.promises[Head(a.iterator._resolvers)] = settled(item),
                 !.iterator._resolvers = Tail(@)]
  ELSE [a EXCEPT !.iterator._items = Append(@, item)]

_write(a, value) == _push(a, [type |-> "value", value |-> value])
_error(a, reason) == _push(a, [type |-> "error", error |-> reason])

\* blocks.forEach(block => this._write(block)) for the blocks index + offset,
\* that is _write on each in turn: the first blocks go to the resolvers that
\* wait, one each, and the others are queued
writeAll(a, index, chunk) ==
  IF chunk = <<>> THEN a
  ELSE IF a.iterator.__done THEN _write(a, index + chunk[1])
  ELSE [a EXCEPT
          !.promises =
            [k \in DOMAIN @ |->
               IF \E j \in 1..Min(Len(chunk), Len(a.iterator._resolvers)) :
                    a.iterator._resolvers[j] = k
               THEN Value(index + chunk[CHOOSE j \in 1..Len(chunk) :
                                          a.iterator._resolvers[j] = k])
               ELSE @[k]],
          !.iterator._resolvers =
            SubSeq(@, Min(Len(chunk), Len(@)) + 1, Len(@)),
          !.iterator._items =
            @ \o [j \in 1..(Len(chunk) -
                             Min(Len(chunk), Len(a.iterator._resolvers))) |->
                    [type |-> "value",
                     value |-> index + chunk[j + Len(a.iterator._resolvers)]]]]

\* _done()
_done(a) ==
  [a EXCEPT !.promises = [k \in DOMAIN @ |->
                            IF \E r \in DOMAIN a.iterator._resolvers :
                                 a.iterator._resolvers[r] = k
                            THEN Done ELSE @[k]],
            !.iterator._resolvers = <<>>,
            !.iterator.__done = TRUE]

\* _asyncFetch returns or throws: its promise is resolved or rejected
returned(a) ==
  IF a.thrown # "none"
  THEN [a EXCEPT !.fetch.pc = "rejected", !.fetch.error = a.thrown,
                 !.thrown = "none"]
  ELSE [a EXCEPT !.fetch.pc = "settled"]

\* _.range(0, n) of lodash 4: it counts down when n is negative
rangeFromZero(n) ==
  [k \in 1..rangeLength(n) |-> IF n < 0 THEN 1 - k ELSE k - 1]

\* the head of the for loop of _asyncFetch: the next chunk is awaited, or the
\* loop is over
nextChunk(a, offsets) ==
  IF offsets = <<>> THEN returned(a)
  ELSE [a EXCEPT !.fetch.pc = "chunk", !.fetch.offsets = offsets]

\* _asyncFetch from `const index` on, up to its first await
fetchFrom(a, startHeight) ==
  IF /\ a.iterator._indexStop # Null
     /\ a.iterator._currentIndex > a.iterator._indexStop[1]
  THEN returned(_done(a))
  ELSE IF a.iterator._currentIndex >= startHeight
  THEN [a EXCEPT !.fetch.pc = "one",
                 !.fetch.index = a.iterator._currentIndex,
                 !.fetch.block = "getBlock"]
  ELSE nextChunk(
         [a EXCEPT !.fetch.index = a.iterator._currentIndex],
         rangeFromZero(
           IF a.iterator._indexStop = Null
           THEN Min(QUEUE_SIZE - Len(a.iterator._items),
                    startHeight - a.iterator._currentIndex)
           ELSE Min(Min(QUEUE_SIZE - Len(a.iterator._items),
                        startHeight - a.iterator._currentIndex),
                    a.iterator._indexStop[1] - a.iterator._currentIndex + 1)))

\* line 140, unless _write has thrown
assigned(a, newStartHeight) ==
  IF a.thrown # "none" THEN a
  ELSE [a EXCEPT !.iterator._startHeight = newStartHeight]

\* the callback of .catch ends: an exception it throws is handled by no one
caught(a) ==
  [a EXCEPT !.fetch.pc = "idle", !.fetch.error = "none",
            !.fetch.unhandled = a.thrown, !.thrown = "none"]

\* _asyncFetch up to its first await
_asyncFetch(a) ==
  IF a.iterator._startHeight = Null
  THEN [a EXCEPT !.fetch.pc = "getBlockCount"]
  ELSE fetchFrom(a, a.iterator._startHeight[1])

\* _fetch()
_fetch(a) ==
  IF a.iterator._fetching THEN a
  ELSE _asyncFetch([a EXCEPT !.iterator._fetching = TRUE])

\* next() from its second statement on
nextItem(a) ==
  IF Len(a.iterator._items) > 0
  THEN [a EXCEPT !.iterator._items = Tail(@),
                 !.promises = Append(@, settled(Head(a.iterator._items)))]
  ELSE IF a.iterator.__done
  THEN [a EXCEPT !.promises = Append(@, Done)]
  ELSE [a EXCEPT !.promises = Append(@, Pending),
                 !.iterator._resolvers = Append(@, Len(a.promises) + 1)]

\* next()
next(a) == nextItem(IF ~a.iterator.__done THEN _fetch(a) ELSE a)

\* the iterations that are run: narrow ones next to the tip of the chain, and a
\* wide one that takes two chunks
Indexes37 == {Null} \cup {Some(n) : n \in 0..(MaxBlockCount - 1)}
Iterations ==
  {[filter |-> [indexStart |-> s, indexStop |-> e], blockCount |-> c] :
     s \in {Null, Some(0), Some(1)}, e \in Indexes37, c \in 1..2} \cup
  {[filter |-> [indexStart |-> Some(0), indexStop |-> Some(BATCH_SIZE + 1)],
    blockCount |-> BATCH_SIZE + 2]}

\* the first index of a filter and the number of blocks it asks for
firstIndex(filter) ==
  IF filter.indexStart = Null THEN 0 ELSE filter.indexStart[1]
asked(filter) ==
  IF filter.indexStop = Null THEN MaxBlockCount - firstIndex(filter)
  ELSE IF filter.indexStop[1] < firstIndex(filter) THEN 0
  ELSE filter.indexStop[1] - firstIndex(filter) + 1

Now == [iterator |-> iterator, fetch |-> fetch, promises |-> promises,
        thrown |-> "none"]

Becomes(a) ==
  /\ iterator' = a.iterator
  /\ fetch' = a.fetch
  /\ promises' = a.promises

IteratorInit ==
  /\ NoMachine /\ NoPeer /\ NoRequest
  /\ \E i \in Iterations :
       /\ iterator = AsyncBlockIterator(i.filter)
       /\ blockCount = i.blockCount
  /\ fetch = NoFetch
  /\ promises = <<>>

\* the consumer calls next()
CallNext ==
  /\ Len(promises) < asked(iterator.filter) + MaxExtraCalls
  /\ Becomes(next(Now))
  /\ UNCHANGED <<blockCount, vmVars, peerVars, requestVars>>

\* client.getBlockCount() of line 124 completes
GetBlockCount ==
  /\ fetch.pc = "getBlockCount"
  /\ Becomes(fetchFrom([Now EXCEPT !.iterator._startHeight = Some(blockCount - 1)],
                       blockCount - 1))
  /\ UNCHANGED <<blockCount, vmVars, peerVars, requestVars>>

\* client.getBlockCount() of line 136 completes
RefreshBlockCount ==
  /\ fetch.pc = "one"
  /\ fetch.count = Null
  /\ fetch' = [fetch EXCEPT !.count = Some(blockCount)]
  /\ UNCHANGED <<iterator, promises, blockCount, vmVars, peerVars, requestVars>>

\* client.getBlock(index) of _fetchOne returns the block
GetBlock ==
  /\ fetch.pc = "one"
  /\ fetch.block = "getBlock"
  /\ fetch.index < blockCount
  /\ fetch' = [fetch EXCEPT !.block = "got"]
  /\ UNCHANGED <<iterator, promises, blockCount, vmVars, peerVars, requestVars>>

\* client.getBlock(index) throws UnknownBlockError: _fetchOne sets the timer
UnknownBlock ==
  /\ fetch.pc = "one"
  /\ fetch.block = "getBlock"
  /\ fetch.index >= blockCount
  /\ fetch' = [fetch EXCEPT !.block = "timer"]
  /\ UNCHANGED <<iterator, promises, blockCount, vmVars, peerVars, requestVars>>

\* the timer of _fetchOne fires: it asks again
PollAgain ==
  /\ fetch.pc = "one"
  /\ fetch.block = "timer"
  /\ fetch' = [fetch EXCEPT !.block = "getBlock"]
  /\ UNCHANGED <<iterator, promises, blockCount, vmVars, peerVars, requestVars>>

\* Promise.all of line 133 is resolved: lines 138 to 140
FetchedOne ==
  /\ fetch.pc = "one"
  /\ fetch.block = "got"
  /\ fetch.count # Null
  /\ Becomes(returned(assigned(
       _write([Now EXCEPT !.iterator._currentIndex = @ + 1,
                          !.fetch.block = "none",
                          !.fetch.count = Null],
              fetch.index),
       fetch.count)))
  /\ UNCHANGED <<blockCount, vmVars, peerVars, requestVars>>

\* Promise.all of line 151 is resolved: lines 154 and 155, then the next chunk
FetchedChunk ==
  /\ fetch.pc = "chunk"
  /\ \A k \in 1..Min(BATCH_SIZE, Len(fetch.offsets)) :
       /\ fetch.index + fetch.offsets[k] >= 0
       /\ fetch.index + fetch.offsets[k] < blockCount
  /\ Becomes(nextChunk(
       writeAll([Now EXCEPT !.iterator._currentIndex =
                              @ + Min(BATCH_SIZE, Len(fetch.offsets))],
                fetch.index,
                SubSeq(fetch.offsets, 1, Min(BATCH_SIZE, Len(fetch.offsets)))),
       SubSeq(fetch.offsets, Min(BATCH_SIZE, Len(fetch.offsets)) + 1,
              Len(fetch.offsets))))
  /\ UNCHANGED <<blockCount, vmVars, peerVars, requestVars>>

\* a client call that is awaited fails with an error other than
\* UnknownBlockError: the await throws
ClientError ==
  /\ fetch.failed < MaxErrors
  /\ \/ fetch.pc \in {"getBlockCount", "chunk"}
     \/ fetch.pc = "one" /\ (fetch.block = "getBlock" \/ fetch.count = Null)
  /\ fetch' = [fetch EXCEPT !.pc = "rejected", !.error = "ClientError",
                            !.block = "none", !.count = Null,
                            !.offsets = <<>>, !.failed = @ + 1]
  /\ UNCHANGED <<iterator, promises, blockCount, vmVars, peerVars, requestVars>>

\* the callback of .then in _fetch
FetchThen ==
  /\ fetch.pc = "settled"
  /\ iterator' = [iterator EXCEPT !._fetching = FALSE]
  /\ fetch' = [fetch EXCEPT !.pc = "idle", !.offsets = <<>>]
  /\ UNCHANGED <<promises, blockCount, vmVars, peerVars, requestVars>>

\* the callback of .catch in _fetch
FetchCatch ==
  /\ fetch.pc = "rejected"
  /\ Becomes(caught(_error([Now EXCEPT !.iterator._fetching = FALSE],
                           fetch.error)))
  /\ UNCHANGED <<blockCount, vmVars, peerVars, requestVars>>

\* the node learns of one more block
Mine ==
  /\ blockCount < MaxBlockCount
  /\ blockCount' = blockCount + 1
  /\ UNCHANGED <<iterator, fetch, promises, vmVars, peerVars, requestVars>>

IteratorNext ==
  \/ CallNext
  \/ GetBlockCount
  \/ RefreshBlockCount
  \/ GetBlock
  \/ UnknownBlock
  \/ PollAgain
  \/ FetchedOne
  \/ FetchedChunk
  \/ ClientError
  \/ FetchThen
  \/ FetchCatch
  \/ Mine

IteratorSpec == IteratorInit /\ [][IteratorNext]_vars

\* the next() calls up to call k whose promise was not rejected
delivered(k) == {j \in 1..k : promises[j].state # "rejected"}

\* what the n-th next() call that is not rejected is to resolve with
Expected(filter, n) ==
  IF \/ filter.indexStop = Null
     \/ firstIndex(filter) + n - 1 <= filter.indexStop[1]
  THEN Value(firstIndex(filter) + n - 1)
  ELSE Done

\* C37: the results of the next() calls, in call order and leaving out the
\* calls rejected with a client error, are the blocks indexStart, indexStart
\* + 1, ... up to indexStop, each once, and { done: true } from then on; the
\* calls that still wait are the latest ones; _push is never reached after
\* _done.
C37_BlocksInOrder ==
  /\ fetch.error # "AsyncBlockIterator already ended"
  /\ fetch.unhandled = "none"
  /\ \A k \in DOMAIN promises :
       /\ promises[k].state = "resolved" =>
            promises[k] = Expected(iterator.filter, Cardinality(delivered(k)))
       /\ promises[k].state = "pending" =>
            \A j \in k..Len(promises) : promises[j].state = "pending"

\* the iteration over two chunks and one polled block has delivered its last
\* block and { done: true }, and a client call failed on the way
C37_WideIterationDone ==
  /\ iterator.filter.indexStop = Some(BATCH_SIZE + 1)
  /\ fetch.failed = 1
  /\ \E k \in DOMAIN promises :
       /\ k > 1
       /\ promises[k] = Done
       /\ promises[k - 1] = Value(BATCH_SIZE + 1)

\* C38: as long as no client call has failed, whenever a next() caller waits
\* in _resolvers a fetch is under way: _fetching is set, and the fetch or the
\* callback that ends it is pending.
C38_WaiterHasFetch ==
  fetch.failed = 0 /\ iterator._resolvers # <<>> =>
    iterator._fetching /\ fetch.pc # "idle"

\* no client call has failed, the block the first waiting caller is to get
\* is on the node and within the filter, and yet nothing is under way: the
\* caller called next() after the last _write of a fetch and before the
\* callback of .then reset _fetching
C38_WaiterLeftBehind ==
  /\ fetch.failed = 0
  /\ iterator._resolvers # <<>>
  /\ ~iterator._fetching
  /\ fetch.pc = "idle"
  /\ ~iterator.__done
  /\ iterator._currentIndex < blockCount
  /\ iterator._indexStop # Null
  /\ iterator._currentIndex <= iterator._indexStop[1]

----------------------------------------------------------------------------
(* Peer.receiveMessage (packages/neo-blockchain-network)                   *)
(*                                                                         *)
(* The messages a peer sends are numbered 1, 2, ... in the order in which  *)
(* the transform stream emits them.  _buffer is a stream of the package    *)
(* `through`: a write queues the data and drains the queue; draining emits *)
(* 'data' for the queued data, oldest first, while the stream is not       *)
(* paused; resume() drains.  Data emitted while nobody listens is gone.    *)
(* The queue below also stands for what the transform stream holds back    *)
(* while _buffer is paused.                                                *)

\* at most MaxReceives calls of receiveMessage, MaxMessages messages and
\* MaxStreamErrors 'error' events
MaxReceives == 3
MaxMessages == 3
MaxStreamErrors == 1

NoResult == [type |-> "none"]
Message(m) == [type |-> "message", value |-> m]
Failure(reason) == [type |-> "error", error |-> reason]

\* new Peer(options): lines 39 and 53; no one listens for data yet
Peer ==
  [queue |-> <<>>, paused |-> TRUE, data |-> <<>>, error |-> {}, errors |-> 0]

\* the closure of a receiveMessage call: the flags of lines 109 and 110,
\* whether its timer is pending, what its promise was settled with and how
\* often resolve or reject was called
Receive(timeoutMS) ==
  [resolved |-> FALSE, rejected |-> FALSE, timer |-> timeoutMS # Null,
   result |-> NoResult, settled |-> 0]

\* The operators below work on a record p of the peer and the closures.

\* cleanup of call k: its onError leaves the three streams, and its
\* onDataReceived leaves the listeners of _transform
cleanup(p, k) ==
  [p EXCEPT !.peer.error = @ \ {k},
            !.peer.data = SelectSeq(@, LAMBDA l :
                            ~(l.on = "_transform" /\ l.call = k))]

\* onError of call k
onError(p, k, reason) ==
  IF ~p.receives[k].resolved /\ ~p.receives[k].rejected
  THEN cleanup([p EXCEPT !.receives[k].rejected = TRUE,
                         !.receives[k].result = Failure(reason),
                         !.receives[k].settled = @ + 1],
               k)
  ELSE p

\* onDataReceived of call k
onDataReceived(p, k, data) ==
  IF ~p.receives[k].resolved /\ ~p.receives[k].rejected
  THEN cleanup([p EXCEPT !.peer.paused = TRUE,
                         !.receives[k].resolved = TRUE,
                         !.receives[k].result = Message(data),
                         !.receives[k].settled = @ + 1],
               k)
  ELSE [p EXCEPT !.peer.paused = TRUE]

\* the listeners of `listeners` are called with data, in the order in which
\* they were added
RECURSIVE called(_, _, _)
called(p, listeners, data) ==
  IF listeners = <<>> THEN p
  ELSE called(onDataReceived(p, Head(listeners).call, data),
              Tail(listeners), data)

\* _buffer.emit('data', data): the listeners were added with once, so each
\* is removed before it is called
emitData(p, data) ==
  called([p EXCEPT !.peer.data = SelectSeq(@, LAMBDA l : l.on # "_buffer")],
         SelectSeq(p.peer.data, LAMBDA l : l.on = "_buffer"),
         data)

\* drain of through
RECURSIVE drain(_)
drain(p) ==
  IF p.peer.queue = <<>> \/ p.peer.paused THEN p
  ELSE drain(emitData([p EXCEPT !.peer.queue = Tail(@)], Head(p.peer.queue)))

\* _buffer.resume() and _buffer.write(data)
resumeBuffer(p) == drain([p EXCEPT !.peer.paused = FALSE])
writeBuffer(p, data) == drain([p EXCEPT !.peer.queue = Append(@, data)])

\* receiveMessage(timeoutMS): the executor of the promise
receiveMessage(p, timeoutMS) ==
  resumeBuffer([p EXCEPT
            !.receives = Append(@, Receive(timeoutMS)),
            !.peer.error = @ \cup {Len(p.receives) + 1},
            !.peer.data = Append(@, [on |-> "_buffer",
                                     call |-> Len(p.receives) + 1])])

Connected == [peer |-> peer, receives |-> receives]

PeerInit ==
  /\ NoMachine /\ NoIterator /\ NoRequest
  /\ peer = Peer
  /\ receives = <<>>
  /\ arrived = 0

\* receiveMessage is called, with a timeout or without one
ReceiveMessage ==
  /\ Len(receives) < MaxReceives
  /\ \E timeoutMS \in {Null, Some(1000)} :
       /\ peer' = receiveMessage(Connected, timeoutMS).peer
       /\ receives' = receiveMessage(Connected, timeoutMS).receives
  /\ UNCHANGED <<arrived, vmVars, iteratorVars, requestVars>>

\* the transform stream emits the next message: the pipe writes it to _buffer
MessageArrives ==
  /\ arrived < MaxMessages
  /\ arrived' = arrived + 1
  /\ peer' = writeBuffer(Connected, arrived + 1).peer
  /\ receives' = writeBuffer(Connected, arrived + 1).receives
  /\ UNCHANGED <<vmVars, iteratorVars, requestVars>>

\* the timer of a call fires: onError(new ReceiveMessageTimeoutError())
Timeout ==
  \E k \in DOMAIN receives :
    /\ receives[k].timer
    /\ peer' = onError(Connected, k, "ReceiveMessageTimeoutError").peer
    /\ receives' =
         [onError(Connected, k, "ReceiveMessageTimeoutError").receives
            EXCEPT ![k].timer = FALSE]
    /\ UNCHANGED <<arrived, vmVars, iteratorVars, requestVars>>

\* onError of every call that still listens, in turn
RECURSIVE failed(_, _, _)
failed(p, k, reason) ==
  IF k > Len(p.receives) THEN p
  ELSE failed(IF k \in p.peer.error THEN onError(p, k, reason) ELSE p,
              k + 1, reason)

\* _stream, _transform or _buffer emits 'error'; every call that has not
\* cleaned up listens on all three
StreamError ==
  /\ peer.errors < MaxStreamErrors
  /\ peer' = [failed(Connected, 1, "StreamError").peer
                EXCEPT !.errors = @ + 1]
  /\ receives' = failed(Connected, 1, "StreamError").receives
  /\ UNCHANGED <<arrived, vmVars, iteratorVars, requestVars>>

PeerNext ==
  \/ ReceiveMessage
  \/ MessageArrives
  \/ Timeout
  \/ StreamError

PeerSpec == PeerInit /\ [][PeerNext]_vars

\* the messages that have arrived and are neither queued nor the result of
\* a call
lost ==
  {m \in 1..arrived :
     /\ \A i \in DOMAIN peer.queue : peer.queue[i] # m
     /\ \A k \in DOMAIN receives : receives[k].result # Message(m)}

\* C39: resolve or reject is called at most once per receiveMessage call; a
\* call is resolved with a message or rejected with the stream's error or
\* the timeout; and every message that has arrived is still queued or was
\* given to a call: none is consumed by a call that was rejected.
C39_SettledOnceNothingLost ==
  /\ \A k \in DOMAIN receives :
       /\ receives[k].settled <= 1
       /\ receives[k].resolved => receives[k].result.type = "message"
       /\ receives[k].rejected => receives[k].result.type = "error"
       /\ receives[k].settled = 0 => receives[k].result = NoResult
  /\ lost = {}

\* the first call was rejected by its timeout, then message 1 arrived, then
\* receiveMessage was called again: message 1 is gone and the second call
\* waits
C39_MessageAfterTimeoutGone ==
  /\ Len(receives) = 2
  /\ receives[1].result = Failure("ReceiveMessageTimeoutError")
  /\ receives[2].settled = 0
  /\ arrived = 1
  /\ peer.errors = 0
  /\ lost = {1}

----------------------------------------------------------------------------
(* request of JSONRPCHttpProvider.js (packages/neo-blockchain-client)       *)
(*                                                                         *)
(* One call of request({ endpoint, requests, timeoutMS, tries }).  The     *)
(* variable request holds its locals and the await it is suspended at;     *)
(* each action is the completion of that await, up to the next one.        *)

PARSE_ERROR_CODE == -32700
PARSE_ERROR_MESSAGE == "Parse error"

\* the call is given at most MaxTries tries
MaxTries == 2

NoError == [name |-> "none"]
FetchError == [name |-> "FetchError"]
HTTPError(status, text) == [name |-> "HTTPError", status |-> status, text |-> text]
SyntaxError == [name |-> "SyntaxError"]
TypeError == [name |-> "TypeError"]
InvalidRPCResponseError == [name |-> "InvalidRPCResponseError"]

\* the values response.json() resolves with: two arrays, objects with and
\* without an error member, and null
ArrayBody(n) == [kind |-> "array", value |-> n]
ErrorBody(code, message) ==
  [kind |-> "object", hasError |-> TRUE, code |-> code, message |-> message]
PlainBody == [kind |-> "object", hasError |-> FALSE]
NullBody == [kind |-> "null"]
NoBody == [kind |-> "undefined"]
Bodies ==
  {ArrayBody(1), ArrayBody(2), PlainBody, NullBody,
   ErrorBody(PARSE_ERROR_CODE, PARSE_ERROR_MESSAGE),
   ErrorBody(PARSE_ERROR_CODE, "Invalid JSON"),
   ErrorBody(-100, "Unknown block")}

\* the condition of lines 61 to 66, without parseErrorTries > 0
isParseError(body) ==
  /\ body.kind = "object"
  /\ body.hasError
  /\ body.code = PARSE_ERROR_CODE
  /\ body.message = PARSE_ERROR_MESSAGE

\* lines 79 to 83
afterLoop(r) ==
  [r EXCEPT !.pc = "thrown",
            !.outcome = IF r.finalError # NoError THEN r.finalError
                        ELSE InvalidRPCResponseError]

\* the head of the while loop: the next fetch is awaited, or the loop ends
while(r) ==
  IF r.tries >= 0 THEN [r EXCEPT !.pc = "fetch"] ELSE afterLoop(r)

\* line 77, then the head of the loop
endOfTry(r) == while([r EXCEPT !.tries = @ - 1])

\* variant: the catch clause forgets the error
catchForgotten(r, thrown) == endOfTry(r)

\* the catch clause of line 73
catch(r, thrown) == endOfTry([r EXCEPT !.finalError = thrown])

\* lines 59 to 72 once response.json() has resolved with body; reading
\* result.error of null throws a TypeError
parsed(r, body) ==
  IF body.kind = "null" THEN catch([r EXCEPT !.result = body], TypeError)
  ELSE IF body.kind = "array"
  THEN [r EXCEPT !.result = body, !.pc = "returned", !.outcome = body]
  ELSE IF isParseError(body) /\ r.parseErrorTries > 0
  THEN endOfTry([r EXCEPT !.result = body,
                          !.tries = @ + 1,
                          !.parseErrorTries = @ - 1])
  ELSE endOfTry([r EXCEPT !.result = body])

\* lines 32 to 37: the call up to its first await
requestCall(triesIn) ==
  while([pc |-> "start",
         triesIn |-> triesIn,
         tries |-> IF triesIn = Null THEN 0 ELSE triesIn[1],
         parseErrorTries |-> 3,
         result |-> NoBody,
         finalError |-> NoError,
         status |-> 0,
         outcome |-> NoBody])

\* what one attempt came to
Attempt(body, thrown) == [body |-> body, thrown |-> thrown]

RequestInit ==
  /\ NoMachine /\ NoIterator /\ NoPeer
  /\ \E triesIn \in {Null} \cup {Some(n) : n \in -1..MaxTries} :
       request = requestCall(triesIn)
  /\ attempts = <<>>

\* fetch rejects: no connection, or the timeout
FetchFails ==
  /\ request.pc = "fetch"
  /\ request' = catch(request, FetchError)
  /\ attempts' = Append(attempts, Attempt(NoBody, FetchError))
  /\ UNCHANGED <<vmVars, iteratorVars, peerVars>>

\* fetch resolves with a response that is ok, or with one that is not
FetchResponds ==
  /\ request.pc = "fetch"
  /\ \E status \in {200, 500} :
       request' = [request EXCEPT !.status = status,
                                  !.pc = IF status = 200 THEN "json"
                                         ELSE "text"]
  /\ UNCHANGED <<attempts, vmVars, iteratorVars, peerVars>>

\* response.text() resolves or rejects: HTTPError is thrown with the text or
\* with null
TextRead ==
  /\ request.pc = "text"
  /\ \E text \in {"Internal Server Error", "null"} :
       /\ request' = catch(request, HTTPError(request.status, text))
       /\ attempts' = Append(attempts,
                             Attempt(NoBody, HTTPError(request.status, text)))
  /\ UNCHANGED <<vmVars, iteratorVars, peerVars>>

\* response.json() rejects: the body is not JSON
JsonFails ==
  /\ request.pc = "json"
  /\ request' = catch(request, SyntaxError)
  /\ attempts' = Append(attempts, Attempt(NoBody, SyntaxError))
  /\ UNCHANGED <<vmVars, iteratorVars, peerVars>>

\* response.json() resolves
JsonParsed ==
  /\ request.pc = "json"
  /\ \E body \in Bodies :
       /\ request' = parsed(request, body)
       /\ attempts' = Append(attempts,
                             Attempt(body, IF body = NullBody THEN TypeError
                                           ELSE NoError))
  /\ UNCHANGED <<vmVars, iteratorVars, peerVars>>

RequestNext ==
  \/ FetchFails
  \/ FetchResponds
  \/ TextRead
  \/ JsonFails
  \/ JsonParsed

RequestSpec == RequestInit /\ [][RequestNext]_vars

\* fetch is given a timeout, so every fetch, text() and json() completes
RequestLiveSpec == RequestSpec /\ WF_vars(RequestNext)

\* the number of fetch calls made so far
fetched ==
  Len(attempts) + (IF request.pc \in {"fetch", "text", "json"} THEN 1 ELSE 0)

\* the attempts answered with a 'Parse error' object
parseErrors == {i \in DOMAIN attempts : isParseError(attempts[i].body)}

\* the attempts that threw
threw == {i \in DOMAIN attempts : attempts[i].thrown # NoError}

\* the tries the call was given
given == IF request.triesIn = Null THEN 0 ELSE request.triesIn[1]

\* what the claim says of a state of the call
AsSpecified ==
  /\ fetched <= given + 1 + Min(3, Cardinality(parseErrors))
  /\ \A i \in DOMAIN attempts :
       attempts[i].body.kind = "array" =>
         /\ i = Len(attempts)
         /\ request.pc = "returned"
         /\ request.outcome = attempts[i].body
  /\ request.pc = "returned" =>
       /\ attempts # <<>>
       /\ attempts[Len(attempts)].body.kind = "array"
  /\ request.pc = "thrown" =>
       request.outcome = IF threw = {} THEN InvalidRPCResponseError
                         ELSE attempts[Last(threw)].thrown

\* C40: the call ends, it returns or throws; it makes at most tries + 1
\* fetch attempts and one more for each of the first three 'Parse error'
\* responses; the first response body that is an array is returned at once;
\* otherwise the call throws the error caught last, or
\* InvalidRPCResponseError when no attempt threw.
C40_RequestEnds ==
  /\ []AsSpecified
  /\ <>(request.pc \in {"returned", "thrown"})

\* the call was given one try, caught an HTTPError, got three extra attempts
\* for 'Parse error' responses, was refused a fourth, and threw the HTTPError
C40_ParseErrorTriesUsedUp ==
  /\ request.triesIn = Some(1)
  /\ request.pc = "thrown"
  /\ Len(attempts) = 5
  /\ Cardinality(parseErrors) = 4
  /\ request.outcome.name = "HTTPError"

====
